---- MODULE Spec2Model ----
(***************************************************************************)
(* Model of the upload/analysis pipeline of credo-base:                    *)
(*   uploadOrchestratorTask  (trigger/uploadOrchestrator.ts, full variant) *)
(*   uploadToOpenAITask      (trigger/uploadToOpenAI.ts)                   *)
(*   analyzeDealTask         (trigger/analyzeDeal.ts)                      *)
(*   analyzeCompetitorsTask  (trigger/analyzeCompetitors.ts)               *)
(*   evaluateCompetitorTask  (trigger/evaluateCompetitor.ts)               *)
(*                                                                         *)
(* Failure model.  An AI-provider call (file download, files.create,       *)
(* responses.parse) may throw or return no parsed output.  A child task    *)
(* run may be ended by the platform (maxDuration, worker loss) at one of   *)
(* its await points; the parent then sees run.ok = false.                  *)
(* prisma.competitor.create, the one database call made inside a           *)
(* try/catch, may throw.  The read of prompts/competition.txt by           *)
(* evaluate-competitor, made outside its try/catch, may fail.  The         *)
(* orchestrator's own database calls succeed and the subject row exists,   *)
(* as the triggering request created it.                                   *)
(***************************************************************************)
EXTENDS Integers, Sequences, FiniteSets, TLC

\* ------------------------------------------------------------------ bounds
MaxFiles == 2        \* files in one list handed to a task run on its own
MaxRunFiles == 1     \* files in the payload of an orchestrator run
MaxTotalFiles == 40  \* files in a list whose progress reports alone are followed
NumTypes == 2        \* competitor types modelled, taken in enum order
MaxCompetitors == 2  \* competitor profiles the AI returns over one run
MaxReplays == 1      \* evaluate-competitor runs made again on existing competitors
MaxPieces == 3       \* pieces an input text of sanitizeCitations is made of
MaxSanitizeCalls == 2 \* applications of sanitizeCitations to one text

\* --------------------------------------------------------------- constants
NULL == "NULL"

\* enum CompetitorType, in declaration order (Object.values)
CompetitorTypeValues ==
  <<"yc-companies", "open-source", "early-stage-vc", "well-funded-vc", "incumbents">>

ALL_COMPETITOR_TYPES == { CompetitorTypeValues[i] : i \in 1..NumTypes }

\* The subject row as the triggering request creates it.
PlaceholderDeal ==
  [companyName |-> "Processing...", description |-> NULL, foundingTeam |-> NULL]

UnknownTeam == << [name |-> "Unknown", role |-> "Unknown", description |-> "Unknown"] >>

\* analyzeDealTask: the record returned when there is nothing to analyse
NoContentAnalysis ==
  [deal_name |-> "Unknown",
   deal_description |-> "No documents or text provided for analysis",
   deal_founding_team |-> UnknownTeam]

\* analyzeDealTask: the record returned when output_parsed is empty
IncompleteAnalysis ==
  [deal_name |-> "AI Analysis Incomplete",
   deal_description |-> "Analysis completed but parsing failed",
   deal_founding_team |-> UnknownTeam]

\* analyzeDealTask: the record returned from the catch block
FailedAnalysis ==
  [deal_name |-> "AI Analysis Failed",
   deal_description |-> "Unable to analyze documents at this time",
   deal_founding_team |-> UnknownTeam]

\* What the model takes the provider to extract from real content.
ParsedAnalysis ==
  [deal_name |-> "Acme",
   deal_description |-> "Acme builds rockets",
   deal_founding_team |-> << [name |-> "Wile", role |-> "CEO", description |-> "Founder"] >>]

\* ------------------------------------------------------------------- files
FileNames == <<"a.pdf", "b.pdf", "c.pdf", "d.pdf">>
FileUrls == <<"s3://1", "s3://2", "s3://3", "s3://4">>

S3File(i) == [s3Url |-> FileUrls[i], originalFilename |-> FileNames[i]]

\* The payload's file list in an orchestrator run: n distinct files.
S3Files(n) == [i \in 1..n |-> S3File(i)]

\* The identifier the provider's file store hands out for the upload of file k.
FileIdValues == <<"file-1", "file-2", "file-3", "file-4">>

ProviderFileId(k) == FileIdValues[k]

Truthy(v) == v # NULL /\ v # ""

RECURSIVE SelectSeq2(_, _)
\* Array.prototype.filter(Boolean)
SelectSeq2(s, i) ==
  IF i > Len(s) THEN <<>>
  ELSE IF Truthy(s[i]) THEN <<s[i]>> \o SelectSeq2(s, i + 1)
       ELSE SelectSeq2(s, i + 1)

FilterBoolean(s) == SelectSeq2(s, 1)

\* --------------------------------------------------- text (utils/sanitize.ts)
\* A string is the sequence of its characters, each a one-character string; a
\* character of the Private Use Area U+E000..U+F8FF is written "U+E000" or
\* "U+F8FF", and a white-space character that has no escape in a string is
\* written by its code point ("U+00A0").  JavaScript's null is the one-element
\* sequence <<NULL>>.
NullText == <<NULL>>

IsNullText(t) == t = NullText

PrivateUseChars == {"U+E000", "U+F8FF"}

Digits == {"0", "1", "2", "3", "4", "5", "6", "7", "8", "9"}

LowerLetters ==
  <<"a", "b", "c", "d", "e", "f", "g", "h", "i", "j", "k", "l", "m",
    "n", "o", "p", "q", "r", "s", "t", "u", "v", "w", "x", "y", "z">>

UpperLetters ==
  <<"A", "B", "C", "D", "E", "F", "G", "H", "I", "J", "K", "L", "M",
    "N", "O", "P", "Q", "R", "S", "T", "U", "V", "W", "X", "Y", "Z">>

\* the i flag: a character compared without regard to case
LowerChar(c) ==
  IF \E k \in 1..Len(UpperLetters) : UpperLetters[k] = c
    THEN LowerLetters[CHOOSE k \in 1..Len(UpperLetters) : UpperLetters[k] = c]
    ELSE c

LowerText(t) == [k \in 1..Len(t) |-> LowerChar(t[k])]

\* \w
IsWordChar(c) ==
  \/ c \in Digits
  \/ c = "_"
  \/ \E k \in 1..Len(LowerLetters) : LowerLetters[k] = c \/ UpperLetters[k] = c

\* \s, which is also the white space String.prototype.trim strips: U+0009 to
\* U+000D, U+0020, U+00A0, U+1680, U+2000 to U+200A, U+2028, U+2029, U+202F,
\* U+205F, U+3000 and U+FEFF.
IsSpaceChar(c) ==
  c \in {"\t", "\n", "U+000B", "\f", "\r", " ", "U+00A0", "U+1680",
         "U+2000", "U+2001", "U+2002", "U+2003", "U+2004", "U+2005", "U+2006",
         "U+2007", "U+2008", "U+2009", "U+200A", "U+2028", "U+2029", "U+202F",
         "U+205F", "U+3000", "U+FEFF"}

IsDigitChar(c) == c \in Digits

\* Whether c is of the character class named class.
InClass(c, class) ==
  IF class = "digit" THEN IsDigitChar(c)
  ELSE IF class = "word" THEN IsWordChar(c)
  ELSE IsSpaceChar(c)

RECURSIVE RunEnd(_, _, _)
\* The last index of the maximal run, from index i on, of characters of t
\* of the class; i - 1 when t[i] is not of it.
RunEnd(t, i, class) ==
  IF i <= Len(t) /\ InClass(t[i], class) THEN RunEnd(t, i + 1, class) ELSE i - 1

\* text.replace(/[-]/g, "")
RemovePrivateUse(t) == SelectSeq(t, LAMBDA c : c \notin PrivateUseChars)

\* The word w matches ^turn\d+(?:search|news)\d+$ without regard to case.
IsTurnToken(w) ==
  LET l == LowerText(w)
      d1 == RunEnd(l, 5, "digit")
  IN /\ Len(l) >= 5
     /\ SubSeq(l, 1, 4) = <<"t", "u", "r", "n">>
     /\ d1 >= 5
     /\ \E kw \in { <<"s", "e", "a", "r", "c", "h">>, <<"n", "e", "w", "s">> } :
          /\ d1 + Len(kw) < Len(l)
          /\ SubSeq(l, d1 + 1, d1 + Len(kw)) = kw
          /\ RunEnd(l, d1 + Len(kw) + 1, "digit") = Len(l)

\* The word w matches ^(?:cite|citation|citations)$ without regard to case.
IsCiteToken(w) ==
  LowerText(w) \in { <<"c", "i", "t", "e">>,
                     <<"c", "i", "t", "a", "t", "i", "o", "n">>,
                     <<"c", "i", "t", "a", "t", "i", "o", "n", "s">> }

\* Whether the word w is a marker of the kind: "turn" or "cite".
IsMarkerWord(w, kind) == IF kind = "turn" THEN IsTurnToken(w) ELSE IsCiteToken(w)

RECURSIVE RemoveWords(_, _, _)
\* text.replace(/\b(?:...)\b/g, "") for a pattern made of word characters
\* only: between two \b the match is a whole maximal run of word characters,
\* so each run that is a marker of the kind is removed.
RemoveWords(t, i, kind) ==
  IF i > Len(t) THEN <<>>
  ELSE IF IsWordChar(t[i])
    THEN LET j == RunEnd(t, i, "word")
             w == SubSeq(t, i, j)
         IN (IF IsMarkerWord(w, kind) THEN <<>> ELSE w) \o RemoveWords(t, j + 1, kind)
    ELSE <<t[i]>> \o RemoveWords(t, i + 1, kind)

\* The index of the "]" that ends a match of \[(?:\d+(?:-\d+)?)\] starting at
\* index i of t, 0 when there is no match there.
BracketRefEnd(t, i) ==
  IF i > Len(t) \/ t[i] # "["
    THEN 0
    ELSE LET d1 == RunEnd(t, i + 1, "digit")
             d2 == RunEnd(t, d1 + 2, "digit")
         IN IF d1 < i + 1 \/ d1 + 1 > Len(t) THEN 0
            ELSE IF t[d1 + 1] = "]" THEN d1 + 1
            ELSE IF t[d1 + 1] = "-" /\ d2 >= d1 + 2 /\ d2 + 1 <= Len(t) /\ t[d2 + 1] = "]"
              THEN d2 + 1
            ELSE 0

RECURSIVE RemoveBracketRefs(_, _)
\* text.replace(/\[(?:\d+(?:-\d+)?)\]/g, "")
RemoveBracketRefs(t, i) ==
  IF i > Len(t) THEN <<>>
  ELSE IF BracketRefEnd(t, i) > 0
    THEN RemoveBracketRefs(t, BracketRefEnd(t, i) + 1)
    ELSE <<t[i]>> \o RemoveBracketRefs(t, i + 1)

RECURSIVE CollapseSpaces(_, _)
\* text.replace(/\s{2,}/g, " ")
CollapseSpaces(t, i) ==
  IF i > Len(t) THEN <<>>
  ELSE LET j == RunEnd(t, i, "space")
       IN IF j >= i + 1 THEN <<" ">> \o CollapseSpaces(t, j + 1)
          ELSE <<t[i]>> \o CollapseSpaces(t, i + 1)

RECURSIVE TrimStart(_)
TrimStart(t) ==
  IF Len(t) > 0 /\ IsSpaceChar(t[1]) THEN TrimStart(Tail(t)) ELSE t

RECURSIVE TrimEnd(_)
TrimEnd(t) ==
  IF Len(t) > 0 /\ IsSpaceChar(t[Len(t)]) THEN TrimEnd(SubSeq(t, 1, Len(t) - 1)) ELSE t

\* String.prototype.trim
Trim(t) == TrimEnd(TrimStart(t))

\* sanitizeCitations(input): null for null, else the five replacements in the
\* order of the source, and null when nothing is left.
sanitizeCitations(input) ==
  IF IsNullText(input) THEN NullText
  ELSE LET t1 == RemovePrivateUse(input)
           t2 == RemoveWords(t1, 1, "turn")
           t3 == RemoveWords(t2, 1, "cite")
           t4 == RemoveBracketRefs(t3, 1)
           t5 == Trim(CollapseSpaces(t4, 1))
       IN IF Len(t5) > 0 THEN t5 ELSE NullText

\* sanitizeCitations(x) ?? x: what create and update store for the text x
StoredText(x) == LET t == sanitizeCitations(x) IN IF IsNullText(t) THEN x ELSE t

\* The evaluations the model takes the provider to produce (EvaluationSchema);
\* score is stored as String(parsed.score).  The second one carries citation
\* markers, its short justification nothing else.
EvaluationOutputs ==
  { [score |-> "7", competitor_category |-> "incumbent",
     short_justification |-> <<"s", "t", "r", "o", "n", "g">>,
     detailed_justification |-> <<"b", "i", "g", " ", "[", "2", "]">>],
    [score |-> "UNCERTAIN", competitor_category |-> "early-stage",
     short_justification |-> <<"[", "1", "]">>,
     detailed_justification |-> <<"n", "o", " ", "d", "a", "t", "a", " ", "c", "i", "t", "e">>] }

\* The evaluation the provider produces within an orchestrator run.
RunEvaluationOutputs ==
  { [score |-> "UNCERTAIN", competitor_category |-> "early-stage",
     short_justification |-> <<"[", "1", "]">>,
     detailed_justification |-> <<"n", "o", " ", "d", "a", "t", "a", " ", "c", "i", "t", "e">>] }

\* The profile texts the model takes the discovery call to return.
ProfileDescription == <<"r", "o", "c", "k", "e", "t", "s">>

ProfileRelevance == <<"r", "i", "v", "a", "l", " ", "[", "1", "-", "2", "]">>

\* The texts the provider produces in this model, and for each the text the
\* persisting sites store, computed once.
ProviderTexts ==
  {ProfileDescription, ProfileRelevance}
    \cup { e.short_justification : e \in EvaluationOutputs }
    \cup { e.detailed_justification : e \in EvaluationOutputs }

StoredTexts == [x \in ProviderTexts |-> StoredText(x)]

\* ------------------------------------------------------------------- state
VARIABLES
  payload,        \* the orchestrator's payload: dealId, userId, s3Files, freeText
  pc,             \* where the orchestrator's run function stands
  progress,       \* the progress values the orchestrator has emitted, in order
  failure,        \* the error the orchestrator threw, "none" if it did not
  deal,           \* the Deal row
  dealFiles,      \* the DealFile rows of the deal
  competitors,    \* the Competitor rows of the deal
  dbWrites,       \* database writes issued so far
  upload,         \* the upload-to-openai run: status, loop index, results
  wbI,            \* the write-back loop's index i (1-based)
  analysis,       \* the analyze-deal run: status, provider outcome, output
  discovery,      \* per competitor type, the analyze-competitors run
  competitorIds,  \* the orchestrator's competitorIds
  evaluation,     \* per triggered competitor id, the evaluate-competitor run
  replayLog,      \* evaluate-competitor runs made again on existing competitors
  sanitizer,      \* sanitizeCitations applied to a text, and again to its result
  tokenApi,       \* one request to the public-token API route and its response
  legacyRun,      \* the analyze-competitors run triggered by trigger/uploadOrchestrator.ts
  tables,         \* the Deal, DealFile and Competitor tables shared by all subjects
  runs,           \* per subject, where its pipeline run stands over the shared tables
  api,            \* the last request to the deals API routes and its response
  uploadApi,      \* one request to the synchronous upload API route and its uploads
  person,         \* the add-person orchestrator's run
  meter,          \* the progress reports of an ingestion run over a long list
  killed          \* whether the platform ended some child run

vars == <<payload, pc, progress, failure, deal, dealFiles, competitors, dbWrites,
          upload, wbI, analysis, discovery, competitorIds, evaluation, replayLog,
          sanitizer, tokenApi, legacyRun, tables, runs, api, uploadApi, person, meter, killed>>

\* ---- the tables shared by all subjects
\* The signed-in users, and the Deal rows of the database: one live deal of
\* each user and one soft-deleted deal.
Users == {"u1", "u2"}
StoredDeals ==
  { [id |-> "d1", assignedToId |-> "u1", deleted |-> FALSE, companyName |-> "Processing..."],
    [id |-> "d2", assignedToId |-> "u2", deleted |-> FALSE, companyName |-> "Processing..."],
    [id |-> "d3", assignedToId |-> "u1", deleted |-> TRUE, companyName |-> "Old Co"] }

\* The subjects a pipeline run is modelled for over the shared tables.
RunSubjects == {"d1", "d2"}

\* The DealFile rows: each run subject has one file, of the same filename and
\* URL text, not yet ingested.
StoredDealFiles ==
  { [dealId |-> d, originalName |-> "deck.pdf", url |-> "s3://deck.pdf",
     openaiFileId |-> NULL] : d \in RunSubjects }

InitialTables == [deals |-> StoredDeals, dealFiles |-> StoredDealFiles, competitors |-> {}]
IdleRuns == [d \in RunSubjects |-> "none"]
IdleApi ==
  [on |-> FALSE, method |-> "none", user |-> NULL, id |-> NULL, status |-> 0, body |-> {}]

\* the add-person run: the webhook body's person id, the position of the run,
\* whether the one-minute wait has completed, how the fetch call ended and the
\* record the run returned
\* the webhook's answer (status, orchestratorTriggered, triggerError) and the
\* fetch-person-details child run (child) with the await it stands at (childPc)
IdlePerson ==
  [on |-> FALSE, pc |-> "none", personId |-> 0, status |-> 0,
   orchestratorTriggered |-> FALSE, triggerError |-> FALSE, waited |-> FALSE,
   triggered |-> FALSE, fetch |-> "none",
   success |-> FALSE, waitStep |-> "none", fetchStep |-> "none", thrown |-> FALSE]

\* the progress reports of one ingestion run, read one at a time: the number
\* of files, the reports made so far, the last report and the one before it
IdleMeter == [on |-> FALSE, totalFiles |-> 0, reports |-> 0, prev |-> 0, last |-> 0]

\* the upload route: the await the handler stands at (pc), the callbacks of
\* the file map still running (inflight), the files stored (s3) and ingested
\* (openai), the rows created and whether the competitors task was triggered
IdleUploadApi ==
  [on |-> FALSE, pc |-> "none", files |-> <<>>, freeText |-> "", status |-> 0,
   inflight |-> {}, s3 |-> {}, openai |-> {}, dealRows |-> 0, fileRows |-> 0,
   triggered |-> FALSE]
IdleUpload ==
  [st |-> "idle", files |-> <<>>, i |-> 1, results |-> <<>>, progress |-> <<>>,
   error |-> "none"]
IdleAnalysis == [st |-> "idle", ai |-> "none", output |-> NULL]
NoScope == [kind |-> "none", value |-> NULL]
IdleTokenApi ==
  [on |-> FALSE, pc |-> "none", session |-> NULL, dealId |-> NULL, runId |-> NULL,
   response |-> [status |-> 0, scope |-> NoScope]]
\* the analyze-competitors run the orchestrator of trigger/uploadOrchestrator.ts
\* triggers: its state, the await it stands at, and the number of
\* prisma.deal.update calls it has issued
IdleLegacyRun == [st |-> "none", pc |-> "none", updates |-> 0]
IdleSanitizer == [on |-> FALSE, input |-> NullText, results |-> <<>>]
IdleDiscovery ==
  [st |-> "idle", ai |-> "none", profiles |-> 0, created |-> 0, hasIds |-> FALSE,
   wroteDeal |-> FALSE]

\* The DealFile rows the triggering request created for the payload's files.
DealFileRows(files) ==
  [i \in 1..Len(files) |->
     [originalName |-> files[i].originalFilename, url |-> files[i].s3Url,
      openaiFileId |-> NULL]]

\* The payloads of the orchestrator runs: with or without each id, with no
\* content, with free text only, with files only, and with free text and one
\* file.
Payloads ==
  { p \in { [dealId |-> d, userId |-> u, s3Files |-> S3Files(n), freeText |-> t] :
              d \in {"deal-1", ""}, u \in {"user-1", ""}, n \in 0..MaxRunFiles,
              t \in {"", "a seed-stage rocket company"} } :
      Len(p.s3Files) <= 1 \/ p.freeText = "" }

Init ==
  /\ payload \in Payloads
  /\ pc = "start"
  /\ progress = <<>>
  /\ failure = "none"
  /\ deal = PlaceholderDeal
  /\ dealFiles = DealFileRows(payload.s3Files)
  /\ competitors = {}
  /\ dbWrites = 0
  /\ upload = IdleUpload
  /\ wbI = 1
  /\ analysis = IdleAnalysis
  /\ discovery = [c \in ALL_COMPETITOR_TYPES |-> IdleDiscovery]
  /\ competitorIds = <<>>
  /\ evaluation = <<>>
  /\ replayLog = <<>>
  /\ sanitizer = IdleSanitizer
  /\ tokenApi = IdleTokenApi
  /\ legacyRun = IdleLegacyRun
  /\ tables = InitialTables
  /\ runs = IdleRuns
  /\ api = IdleApi
  /\ uploadApi = IdleUploadApi
  /\ person = IdlePerson
  /\ meter = IdleMeter
  /\ killed = FALSE

\* ------------------------------------------- upload-to-openai (the adapter)
\* ---- JavaScript numbers (IEEE 754 binary64) on the operands of progressPercent
\* A positive number is a record [m |-> digits, e |-> k]: digits is the
\* significand, an integer of at most SignificandBits binary digits written in
\* base Limb with the most significant digit first, and the value is that
\* integer times 2^k.
SignificandBits == 53
LimbBits == (SignificandBits - 1) \div 4

RECURSIVE ShiftToUnit(_, _)
\* The least s >= 0 with a * 2^s >= b, for 1 <= a <= b.
ShiftToUnit(a, b) == IF a >= b THEN 0 ELSE 1 + ShiftToUnit(2 * a, b)

RECURSIVE Pow2(_)
Pow2(s) == IF s = 0 THEN 1 ELSE 2 * Pow2(s - 1)

\* A significand is written in five digits of base Limb, the first one
\* unbounded: (SignificandBits - 1) = 4 * LimbBits binary digits follow it.
Limb == Pow2(LimbBits)

\* The five digits l with the carries moved up, so that all but the first
\* are below Limb.
Carried(l) ==
  LET d5 == l[5]
      d4 == l[4] + d5 \div Limb
      d3 == l[3] + d4 \div Limb
      d2 == l[2] + d3 \div Limb
      d1 == l[1] + d2 \div Limb
  IN <<d1, d2 % Limb, d3 % Limb, d4 % Limb, d5 % Limb>>

\* The number of binary digits of the natural number c >= 1.
BitLength(c) == CHOOSE w \in 1..31 : Pow2(w - 1) <= c /\ (w = 31 \/ c < Pow2(w))

\* a / b in binary64, for integers 1 <= a <= b < 2^17: the quotient rounded
\* to SignificandBits binary digits, to nearest, ties to even.  The value is
\* m * 2^e.
FloatDivide(a, b) ==
  LET s == ShiftToUnit(a, b)
      r0 == a * Pow2(s) - b
      q1 == (r0 * Limb) \div b
      r1 == (r0 * Limb) % b
      q2 == (r1 * Limb) \div b
      r2 == (r1 * Limb) % b
      q3 == (r2 * Limb) \div b
      r3 == (r2 * Limb) % b
      q4 == (r3 * Limb) \div b
      r4 == (r3 * Limb) % b
      up == 2 * r4 > b \/ (2 * r4 = b /\ q4 % 2 = 1)
  IN [m |-> Carried(<<1, q1, q2, q3, q4 + (IF up THEN 1 ELSE 0)>>),
      e |-> 0 - (SignificandBits - 1) - s]

\* x * k in binary64, for a positive number x and an integer 1 <= k < 2^17:
\* the exact product rounded to SignificandBits binary digits, to nearest,
\* ties to even.
FloatTimes(x, k) ==
  LET p == Carried([j \in 1..5 |-> x.m[j] * k])
      extra == BitLength(p[1]) - 1
      unit == Pow2(extra)
      dropped == p[5] % unit
      keptOdd == (p[5] \div unit) % 2 = 1
      up == 2 * dropped > unit \/ (2 * dropped = unit /\ keptOdd)
  IN [m |-> Carried([p EXCEPT ![5] = @ - dropped + (IF up THEN unit ELSE 0)]),
      e |-> x.e]

\* Math.round(x) for a positive number x = m * 2^e with e <= 1 - SignificandBits:
\* the integer part, plus one when the fraction is at least one half.
MathRound(x) ==
  LET s == 0 - x.e - (SignificandBits - 1)
      whole == x.m[1] \div Pow2(s)
      half == IF s = 0 THEN x.m[2] \div (Limb \div 2)
              ELSE (x.m[1] \div Pow2(s - 1)) % 2
  IN whole + half

\* Math.round((k / totalFiles) * 100) for 1 <= k <= totalFiles
PercentOf(k, totalFiles) == MathRound(FloatTimes(FloatDivide(k, totalFiles), 100))

\* progressPercent of the loop's 0-based index i over totalFiles files
ProgressPercent(i, totalFiles) == PercentOf(i + 1, totalFiles)

\* What the loop body pushes for one file: the provider's identifier, or the
\* null marker of the catch block when the download or files.create failed.
UploadResult(file, k, outcome) ==
  [originalFilename |-> file.originalFilename,
   openaiFileId |-> IF outcome = "ok" THEN ProviderFileId(k) ELSE NULL]

FileOutcomes == {"ok", "download-failed", "create-failed"}

\* The run function up to its loop: an empty list is rejected.
AdapterBegin ==
  /\ upload.st = "triggered"
  /\ IF Len(upload.files) = 0
       THEN upload' = [upload EXCEPT !.st = "failed",
                         !.error = "No S3 files provided for OpenAI upload"]
       ELSE upload' = [upload EXCEPT !.st = "loop", !.progress = <<5>>]
  /\ UNCHANGED <<payload, pc, progress, failure, deal, dealFiles, competitors, dbWrites,
                 wbI, analysis, discovery, competitorIds, evaluation, replayLog, sanitizer, tokenApi, legacyRun, tables, runs, api, uploadApi, person, meter, killed>>

\* One iteration of the loop over payload.s3Files, up to its awaits: the
\* progress of the file in hand is reported before the download starts.
AdapterFile ==
  /\ upload.st = "loop"
  /\ upload.i <= Len(upload.files)
  /\ upload' = [upload EXCEPT
       !.st = "await",
       !.progress = Append(@, ProgressPercent(upload.i - 1, Len(upload.files)))]
  /\ UNCHANGED <<payload, pc, progress, failure, deal, dealFiles, competitors, dbWrites,
                 wbI, analysis, discovery, competitorIds, evaluation, replayLog, sanitizer, tokenApi, legacyRun, tables, runs, api, uploadApi, person, meter, killed>>

\* The rest of the iteration: the download (fetch) and files.create have
\* ended, and the try or the catch block pushes the file's result.
AdapterFileSettled ==
  /\ upload.st = "await"
  /\ \E outcome \in FileOutcomes :
       upload' = [upload EXCEPT
         !.st = "loop",
         !.results = Append(@, UploadResult(upload.files[upload.i], upload.i, outcome)),
         !.i = @ + 1]
  /\ UNCHANGED <<payload, pc, progress, failure, deal, dealFiles, competitors, dbWrites,
                 wbI, analysis, discovery, competitorIds, evaluation, replayLog, sanitizer, tokenApi, legacyRun, tables, runs, api, uploadApi, person, meter, killed>>

\* After the loop: the results are returned.
AdapterEnd ==
  /\ upload.st = "loop"
  /\ upload.i > Len(upload.files)
  /\ upload' = [upload EXCEPT !.st = "ok", !.progress = Append(@, 100)]
  /\ UNCHANGED <<payload, pc, progress, failure, deal, dealFiles, competitors, dbWrites,
                 wbI, analysis, discovery, competitorIds, evaluation, replayLog, sanitizer, tokenApi, legacyRun, tables, runs, api, uploadApi, person, meter, killed>>

\* The platform ends the run at an await of the loop (maxDuration: 300):
\* the progress of the file in hand is reported, its result is not pushed.
AdapterKilled ==
  /\ upload.st = "await"
  /\ upload' = [upload EXCEPT !.st = "failed", !.error = "killed"]
  /\ killed' = TRUE
  /\ UNCHANGED <<payload, pc, progress, failure, deal, dealFiles, competitors, dbWrites,
                 wbI, analysis, discovery, competitorIds, evaluation, replayLog, sanitizer, tokenApi, legacyRun, tables, runs, api, uploadApi, person, meter>>

\* ------------------------------------------------------------ orchestrator
\* HasFiles that takes every payload to carry files.
HasFilesAlways(p) == TRUE

\* payload.s3Files && payload.s3Files.length > 0
HasFiles(p) == Len(p.s3Files) > 0

\* ValidationError without the check for a content source.
ValidationErrorIdsOnly(p) ==
  IF p.dealId = "" THEN "dealId is required"
  ELSE IF p.userId = "" THEN "userId is required"
  ELSE "none"

\* The payload checks at the top of run: the message thrown, or "none".
ValidationError(p) ==
  IF p.dealId = "" THEN "dealId is required"
  ELSE IF p.userId = "" THEN "userId is required"
  ELSE IF ~HasFiles(p) /\ p.freeText = "" THEN "Either s3Files or freeText must be provided"
  ELSE "none"

\* openaiResults.map(result => result.openaiFileId).filter(Boolean)
OpenaiFileIds(results) ==
  FilterBoolean([i \in 1..Len(results) |-> results[i].openaiFileId])

\* batch.triggerByTaskAndWait of analyzeDealTask and one analyzeCompetitorsTask
\* per competitor type.
TriggerAnalysis ==
  /\ analysis' = [analysis EXCEPT !.st = "running"]
  /\ discovery' = [c \in ALL_COMPETITOR_TYPES |-> [discovery[c] EXCEPT !.st = "running"]]

\* run, from its start to its first await.
Start ==
  /\ pc = "start"
  /\ IF ValidationError(payload) # "none"
       THEN /\ failure' = ValidationError(payload)
            /\ pc' = "failed"
            /\ UNCHANGED <<progress, upload, analysis, discovery>>
       ELSE IF HasFiles(payload)
         THEN /\ progress' = <<5, 15>>
              /\ upload' = [upload EXCEPT !.st = "triggered", !.files = payload.s3Files]
              /\ pc' = "upload-wait"
              /\ UNCHANGED <<failure, analysis, discovery>>
         ELSE /\ progress' = <<5, 40, 50>>
              /\ TriggerAnalysis
              /\ pc' = "analysis-wait"
              /\ UNCHANGED <<failure, upload>>
  /\ UNCHANGED <<payload, deal, dealFiles, competitors, dbWrites, wbI, competitorIds,
                 evaluation, replayLog, sanitizer, tokenApi, legacyRun, tables, runs, api, uploadApi, person, meter, killed>>

\* The upload batch has returned: a failed run is rethrown (failure keeps the
\* fixed part of the message, "OpenAI upload failed: <error>").
AfterUpload ==
  /\ pc = "upload-wait"
  /\ upload.st \in {"ok", "failed"}
  /\ IF upload.st = "failed"
       THEN /\ failure' = "OpenAI upload failed"
            /\ pc' = "failed"
            /\ UNCHANGED <<progress, wbI>>
       ELSE /\ progress' = Append(progress, 40)
            /\ pc' = "writeback"
            /\ wbI' = 1
            /\ UNCHANGED failure
  /\ UNCHANGED <<payload, deal, dealFiles, competitors, dbWrites, upload, analysis,
                 discovery, competitorIds, evaluation, replayLog, sanitizer, tokenApi, legacyRun, tables, runs, api, uploadApi, person, meter, killed>>

\* updateMany whose where clause leaves out the url.
UpdateManyByName(rows, originalName, url, openaiFileId) ==
  [r \in 1..Len(rows) |->
     IF rows[r].originalName = originalName
       THEN [rows[r] EXCEPT !.openaiFileId = openaiFileId]
       ELSE rows[r]]

\* prisma.dealFile.updateMany({ where: {dealId, originalName, url}, data: {openaiFileId} })
UpdateManyDealFiles(rows, originalName, url, openaiFileId) ==
  [r \in 1..Len(rows) |->
     IF rows[r].originalName = originalName /\ rows[r].url = url
       THEN [rows[r] EXCEPT !.openaiFileId = openaiFileId]
       ELSE rows[r]]

\* The write-back loop's body for index i (1-based): file i of the payload is
\* paired with result i of the upload run.
WriteBackBody(rows, files, results, i) ==
  IF i <= Len(results) /\ Truthy(results[i].openaiFileId)
    THEN UpdateManyDealFiles(rows, files[i].originalFilename, files[i].s3Url,
                             results[i].openaiFileId)
    ELSE rows

WriteBackWrites(results, i) ==
  IF i <= Len(results) /\ Truthy(results[i].openaiFileId) THEN 1 ELSE 0

\* One iteration of the write-back loop.
WriteBackIter ==
  /\ pc = "writeback"
  /\ Len(upload.results) > 0
  /\ wbI <= Len(payload.s3Files)
  /\ dealFiles' = WriteBackBody(dealFiles, payload.s3Files, upload.results, wbI)
  /\ dbWrites' = dbWrites + WriteBackWrites(upload.results, wbI)
  /\ wbI' = wbI + 1
  /\ UNCHANGED <<payload, pc, progress, failure, deal, competitors, upload, analysis,
                 discovery, competitorIds, evaluation, replayLog, sanitizer, tokenApi, legacyRun, tables, runs, api, uploadApi, person, meter, killed>>

\* WriteBackDone that triggers the analysis batch without waiting for the
\* write-back loop to end.
WriteBackDoneEarly ==
  /\ pc = "writeback"
  /\ progress' = Append(progress, 50)
  /\ TriggerAnalysis
  /\ pc' = "analysis-wait"
  /\ UNCHANGED <<payload, failure, deal, dealFiles, competitors, dbWrites, upload, wbI,
                 competitorIds, evaluation, replayLog, sanitizer, tokenApi, legacyRun, tables, runs, api, uploadApi, person, meter, killed>>

\* After the write-back: the analysis batch is triggered.
WriteBackDone ==
  /\ pc = "writeback"
  /\ (Len(upload.results) = 0 \/ wbI > Len(payload.s3Files))
  /\ progress' = Append(progress, 50)
  /\ TriggerAnalysis
  /\ pc' = "analysis-wait"
  /\ UNCHANGED <<payload, failure, deal, dealFiles, competitors, dbWrites, upload, wbI,
                 competitorIds, evaluation, replayLog, sanitizer, tokenApi, legacyRun, tables, runs, api, uploadApi, person, meter, killed>>

\* ------------------------------------------------------------ analyze-deal
\* The payload the orchestrator hands to analyzeDealTask.
AnalyzeDealPayload ==
  [openaiFileIds |-> OpenaiFileIds(upload.results), freeText |-> payload.freeText]

AiOutcomes == {"parsed", "null", "throw"}

\* AnalyzeDealOutput without the branch for a payload with nothing to analyse.
AnalyzeDealOutputNoDefault(p, ai) ==
  IF ai = "parsed" THEN ParsedAnalysis
  ELSE IF ai = "null" THEN IncompleteAnalysis
  ELSE FailedAnalysis

\* AnalyzeDealOutput whose fallbacks name and describe the deal "Unknown".
AnalyzeDealOutputUnknownFallback(p, ai) ==
  IF Len(p.openaiFileIds) = 0 /\ p.freeText = "" THEN NoContentAnalysis
  ELSE IF ai = "parsed" THEN ParsedAnalysis
  ELSE [deal_name |-> "Unknown", deal_description |-> "Unknown",
        deal_founding_team |-> UnknownTeam]

\* What run returns for a payload and the provider's outcome.
AnalyzeDealOutput(p, ai) ==
  IF Len(p.openaiFileIds) = 0 /\ p.freeText = "" THEN NoContentAnalysis
  ELSE IF ai = "parsed" THEN ParsedAnalysis
  ELSE IF ai = "null" THEN IncompleteAnalysis
  ELSE FailedAnalysis

\* Whether run reaches openai.responses.parse for this payload.
AnalyzeDealCallsAi(p) == ~(Len(p.openaiFileIds) = 0 /\ p.freeText = "")

\* The analyze-deal run, from trigger to return.
AnalyzeDealRun ==
  /\ analysis.st = "running"
  /\ IF AnalyzeDealCallsAi(AnalyzeDealPayload)
       THEN \E ai \in AiOutcomes :
              analysis' = [st |-> "ok", ai |-> ai,
                           output |-> AnalyzeDealOutput(AnalyzeDealPayload, ai)]
       ELSE analysis' = [st |-> "ok", ai |-> "none",
                         output |-> AnalyzeDealOutput(AnalyzeDealPayload, "none")]
  /\ UNCHANGED <<payload, pc, progress, failure, deal, dealFiles, competitors, dbWrites,
                 upload, wbI, discovery, competitorIds, evaluation, replayLog, sanitizer, tokenApi, legacyRun, tables, runs, api, uploadApi, person, meter, killed>>

\* The platform ends the analyze-deal run during the provider call.
AnalyzeDealKilled ==
  /\ analysis.st = "running"
  /\ AnalyzeDealCallsAi(AnalyzeDealPayload)
  /\ analysis' = [analysis EXCEPT !.st = "failed"]
  /\ killed' = TRUE
  /\ UNCHANGED <<payload, pc, progress, failure, deal, dealFiles, competitors, dbWrites,
                 upload, wbI, discovery, competitorIds, evaluation, replayLog, sanitizer, tokenApi, legacyRun, tables, runs, api, uploadApi, person, meter>>

\* ----------------------------------------------------- analyze-competitors
\* (deal.files || []).map(f => f.openaiFileId).filter(Boolean)
DealOpenaiFileIds ==
  FilterBoolean([i \in 1..Len(dealFiles) |-> dealFiles[i].openaiFileId])

\* The id of the k-th Competitor row created by the branch of type c.
CompetitorId(c, k) == <<c, k>>

\* NewCompetitor that tags every row with the first competitor type.
NewCompetitorFirstType(c, k) ==
  [id |-> CompetitorId(c, k), competitorSource |-> CompetitorTypeValues[1],
   description |-> StoredTexts[ProfileDescription],
   relevance |-> StoredTexts[ProfileRelevance],
   score |-> NULL, competitorCategory |-> NULL,
   shortJustification |-> NullText, detailedJustification |-> NullText]

\* prisma.competitor.create for the k-th profile of type c
NewCompetitor(c, k) ==
  [id |-> CompetitorId(c, k), competitorSource |-> c,
   description |-> StoredTexts[ProfileDescription],
   relevance |-> StoredTexts[ProfileRelevance],
   score |-> NULL, competitorCategory |-> NULL,
   shortJustification |-> NullText, detailedJustification |-> NullText]

\* The rows after the create loop has created the first n profiles of type c.
CreateCompetitors(rows, c, n) == rows \cup { NewCompetitor(c, k) : k \in 1..n }

RECURSIVE SumProfiles(_, _)
SumProfiles(d, cs) ==
  IF cs = {} THEN 0
  ELSE LET c == CHOOSE x \in cs : TRUE IN d[c].profiles + SumProfiles(d, cs \ {c})

\* Profiles the provider may still return within the model's bound.
ProfileBudget == MaxCompetitors - SumProfiles(discovery, ALL_COMPETITOR_TYPES)

\* DiscoveryNoFiles whose update of the deal is carried out.
DiscoveryNoFilesWritesDeal(c) ==
  /\ discovery[c].st = "running"
  /\ Len(DealOpenaiFileIds) = 0
  /\ discovery' = [discovery EXCEPT ![c].st = "ok", ![c].wroteDeal = TRUE]
  /\ dbWrites' = dbWrites + 1
  /\ UNCHANGED <<payload, pc, progress, failure, deal, dealFiles, competitors, upload,
                 wbI, analysis, competitorIds, evaluation, replayLog, sanitizer, tokenApi, legacyRun, tables, runs, api, uploadApi, person, meter, killed>>

\* The deal has no file identifier: the branch reports progress 100 and
\* awaits prisma.deal.update({ where: {id}, data: { competitors: empty } }).
\* The deals table has no competitors column (competitors is a table of its
\* own, related by dealId), so the client rejects the update: no row is
\* written and the run, which makes the call outside any try block, throws.
DiscoveryNoFiles(c) ==
  /\ discovery[c].st = "running"
  /\ Len(DealOpenaiFileIds) = 0
  /\ discovery' = [discovery EXCEPT ![c].st = "failed"]
  /\ UNCHANGED <<payload, pc, progress, failure, deal, dealFiles, competitors, dbWrites, upload,
                 wbI, analysis, competitorIds, evaluation, replayLog, sanitizer, tokenApi, legacyRun, tables, runs, api, uploadApi, person, meter, killed>>

\* The provider call throws, or returns no parsed output: no row is created.
\* The catch block's fallback carries no competitorIds.
DiscoveryAiFails(c) ==
  /\ discovery[c].st = "running"
  /\ discovery[c].ai = "none"
  /\ Len(DealOpenaiFileIds) > 0
  /\ \/ discovery' = [discovery EXCEPT ![c].st = "ok", ![c].ai = "throw"]
     \/ discovery' = [discovery EXCEPT ![c].st = "ok", ![c].ai = "null", ![c].hasIds = TRUE]
  /\ UNCHANGED <<payload, pc, progress, failure, deal, dealFiles, competitors, dbWrites,
                 upload, wbI, analysis, competitorIds, evaluation, replayLog, sanitizer, tokenApi, legacyRun, tables, runs, api, uploadApi, person, meter, killed>>

\* The provider returns its list of profiles.  With an empty list the run
\* returns an empty list of ids; otherwise the create loop issues
\* prisma.competitor.create for the first profile.  The length of the list is
\* drawn as the loop goes: profiles counts the profiles the loop has reached,
\* and each create draws whether its profile was the last.
DiscoveryParsed(c) ==
  /\ discovery[c].st = "running"
  /\ discovery[c].ai = "none"
  /\ Len(DealOpenaiFileIds) > 0
  /\ \E more \in BOOLEAN :
       /\ more => ProfileBudget > 0
       /\ discovery' = [discovery EXCEPT ![c] =
            [st |-> IF more THEN "running" ELSE "ok", ai |-> "parsed",
             profiles |-> IF more THEN 1 ELSE 0,
             created |-> 0, hasIds |-> ~more, wroteDeal |-> FALSE]]
  /\ UNCHANGED <<payload, pc, progress, failure, deal, dealFiles, competitors, dbWrites,
                 upload, wbI, analysis, competitorIds, evaluation, replayLog, sanitizer, tokenApi, legacyRun, tables, runs, api, uploadApi, person, meter, killed>>

\* The awaited prisma.competitor.create of the profile in hand has created its
\* row: the loop goes on to the next profile or, after the last one, the run
\* returns the ids of the rows.
DiscoveryCreates(c) ==
  /\ discovery[c].st = "running"
  /\ discovery[c].ai = "parsed"
  /\ discovery[c].created < discovery[c].profiles
  /\ \E more \in BOOLEAN :
       /\ more => ProfileBudget > 0
       /\ discovery' = [discovery EXCEPT
            ![c].created = @ + 1,
            ![c].profiles = IF more THEN @ + 1 ELSE @,
            ![c].st = IF more THEN "running" ELSE "ok",
            ![c].hasIds = ~more]
  /\ competitors' = CreateCompetitors(competitors, c, discovery[c].created + 1)
  /\ dbWrites' = dbWrites + 1
  /\ UNCHANGED <<payload, pc, progress, failure, deal, dealFiles, upload, wbI, analysis,
                 competitorIds, evaluation, replayLog, sanitizer, tokenApi, legacyRun, tables, runs, api, uploadApi, person, meter, killed>>

\* The awaited prisma.competitor.create of the next profile throws: the rows
\* created before it exist, and the catch block returns the fallback, without
\* competitorIds.
DiscoveryCreateThrows(c) ==
  /\ discovery[c].st = "running"
  /\ discovery[c].ai = "parsed"
  /\ discovery[c].created < discovery[c].profiles
  /\ discovery' = [discovery EXCEPT ![c].st = "ok", ![c].hasIds = FALSE]
  /\ UNCHANGED <<payload, pc, progress, failure, deal, dealFiles, competitors, dbWrites,
                 upload, wbI, analysis, competitorIds, evaluation, replayLog, sanitizer, tokenApi, legacyRun, tables, runs, api, uploadApi, person, meter, killed>>

\* The platform ends the run (maxDuration: 10000) at one of its awaits: the
\* read of the deal, the rejected deal update of the branch without file ids,
\* the provider call, or a prisma.competitor.create, whose row may or may not
\* have been written when the run ends.
DiscoveryKilled(c) ==
  /\ discovery[c].st = "running"
  /\ \E applied \in BOOLEAN :
       /\ applied => /\ Len(DealOpenaiFileIds) > 0
                     /\ discovery[c].ai = "parsed"
                     /\ discovery[c].created < discovery[c].profiles
       /\ LET k == discovery[c].created + (IF applied THEN 1 ELSE 0) IN
            /\ discovery' = [discovery EXCEPT
                 ![c].st = "failed", ![c].created = k, ![c].hasIds = FALSE]
            /\ competitors' = CreateCompetitors(competitors, c, k)
            /\ dbWrites' = dbWrites + (IF applied THEN 1 ELSE 0)
  /\ killed' = TRUE
  /\ UNCHANGED <<payload, pc, progress, failure, deal, dealFiles, upload, wbI, analysis,
                 competitorIds, evaluation, replayLog, sanitizer, tokenApi, legacyRun, tables, runs, api, uploadApi, person, meter>>

\* --------------------------------------------- orchestrator: joins, persist
Settled(run) == run.st \in {"ok", "failed"}

\* A join that waits for the analyze-deal run only.
AnalysisBatchDoneDealOnly == Settled(analysis)

\* batch.triggerByTaskAndWait resolves once every run of the batch has ended.
AnalysisBatchDone ==
  Settled(analysis) /\ \A c \in ALL_COMPETITOR_TYPES : Settled(discovery[c])

\* out.competitorIds of one analyze-competitors run
RunCompetitorIds(c, run) == [k \in 1..run.created |-> CompetitorId(c, k)]

\* A check that rethrows the failure of any run of the analysis batch.
AnyAnalysisRunFailed ==
  analysis.st = "failed" \/ \E c \in ALL_COMPETITOR_TYPES : discovery[c].st = "failed"

\* !dealAnalysisRun.ok
DealAnalysisRunFailed == analysis.st = "failed"

RECURSIVE CollectCompetitorIds(_, _)
\* The loop over competitorAnalysisRuns, in batch order, from type index t on:
\* a failed run is skipped, an output without competitorIds adds nothing.
CollectCompetitorIds(d, t) ==
  IF t > NumTypes THEN <<>>
  ELSE LET c == CompetitorTypeValues[t] IN
       (IF d[c].st = "ok" /\ d[c].hasIds THEN RunCompetitorIds(c, d[c]) ELSE <<>>)
         \o CollectCompetitorIds(d, t + 1)

Range(seq) == { seq[i] : i \in 1..Len(seq) }

\* prisma.deal.update with the analysis output (step 5)
UpdateDeal(row, dealAnalysis) ==
  [row EXCEPT !.companyName = dealAnalysis.deal_name,
              !.description = dealAnalysis.deal_description,
              !.foundingTeam = dealAnalysis.deal_founding_team]

\* FinishBegin that reports 100 where the deal update is announced.
FinishBeginReports100 ==
  /\ progress' = Append(progress, 100)
  /\ pc' = "deal-update"
  /\ UNCHANGED <<deal, dbWrites>>

\* Step 5 up to its await: 80 is reported and prisma.deal.update is issued.
FinishBegin ==
  /\ progress' = Append(progress, 80)
  /\ pc' = "deal-update"
  /\ UNCHANGED <<deal, dbWrites>>

\* The analysis batch has returned: a failed analyze-deal run is rethrown, the
\* competitor ids are collected, and the evaluation batch is triggered.
AfterAnalysis ==
  /\ pc = "analysis-wait"
  /\ AnalysisBatchDone
  /\ IF DealAnalysisRunFailed
       THEN /\ failure' = "Deal analysis failed"
            /\ pc' = "failed"
            /\ UNCHANGED <<progress, deal, dbWrites, competitorIds, evaluation>>
       ELSE LET ids == CollectCompetitorIds(discovery, 1) IN
            /\ competitorIds' = ids
            /\ UNCHANGED failure
            /\ IF Len(ids) > 0
                 THEN /\ evaluation' =
                           [id \in Range(ids) |-> [st |-> "running", companyA |-> NULL]]
                      /\ pc' = "evaluate-wait"
                      /\ UNCHANGED <<progress, deal, dbWrites>>
                 ELSE /\ FinishBegin
                      /\ UNCHANGED evaluation
  /\ UNCHANGED <<payload, dealFiles, competitors, upload, wbI, analysis, discovery,
                 replayLog, sanitizer, tokenApi, legacyRun, tables, runs, api, uploadApi, person, meter, killed>>

EvaluationBatchDone == \A id \in DOMAIN evaluation : Settled(evaluation[id])

\* The evaluation batch has returned; its runs are not inspected.
AfterEvaluation ==
  /\ pc = "evaluate-wait"
  /\ EvaluationBatchDone
  /\ FinishBegin
  /\ UNCHANGED <<payload, failure, dealFiles, competitors, upload, wbI, analysis,
                 discovery, competitorIds, evaluation, replayLog, sanitizer, tokenApi, legacyRun, tables, runs, api, uploadApi, person, meter, killed>>

\* prisma.deal.update has been applied: 100 is reported and the final
\* prisma.deal.findUnique is issued.
FinishDealUpdate ==
  /\ pc = "deal-update"
  /\ deal' = UpdateDeal(deal, analysis.output)
  /\ dbWrites' = dbWrites + 1
  /\ progress' = Append(progress, 100)
  /\ pc' = "final-read"
  /\ UNCHANGED <<payload, failure, dealFiles, competitors, upload, wbI, analysis,
                 discovery, competitorIds, evaluation, replayLog, sanitizer, tokenApi, legacyRun, tables, runs, api, uploadApi, person, meter, killed>>

\* The final read has returned: run returns { success: true, deal }.
Finish ==
  /\ pc = "final-read"
  /\ pc' = "completed"
  /\ UNCHANGED <<payload, progress, failure, deal, dealFiles, competitors, dbWrites, upload,
                 wbI, analysis, discovery, competitorIds, evaluation, replayLog, sanitizer,
                 tokenApi, legacyRun, tables, runs, api, uploadApi, person, meter, killed>>

\* ----------------------------------------------------- evaluate-competitor
\* prisma.competitor.update with a parsed evaluation
UpdateCompetitor(rows, id, parsed) ==
  { IF r.id = id
      THEN [r EXCEPT !.score = parsed.score,
                     !.competitorCategory = parsed.competitor_category,
                     !.shortJustification = StoredTexts[parsed.short_justification],
                     !.detailedJustification = StoredTexts[parsed.detailed_justification]]
      ELSE r : r \in rows }

\* The provider call of one evaluation: a parsed output, no parsed output, or
\* an exception.
AiEvaluations(outputs) ==
  { [kind |-> "parsed", parsed |-> e] : e \in outputs }
    \cup { [kind |-> "null"], [kind |-> "throw"] }

\* Whether a run that ended this way raised an error to its caller.
EvaluateRaisedAlways(kind) == TRUE

\* Whether a run that ended this way raised an error to its caller: the
\* throws of the lookup and of the read of prompts/competition.txt leave the
\* run function, the try block's are caught.
EvaluateRaised(kind) == kind \in {"notfound", "noprompt"}

\* How one evaluation can end once its row is found: the prompt file cannot
\* be read, or the provider call ends in one of its outcomes.
EvaluationEnds(outputs) == AiEvaluations(outputs) \cup { [kind |-> "noprompt"] }

\* EvaluateCompetitor that clears the evaluation when there is no parsed output.
EvaluateCompetitorClears(rows, id, outcome) ==
  IF outcome.kind = "parsed" THEN UpdateCompetitor(rows, id, outcome.parsed)
  ELSE { IF r.id = id
           THEN [r EXCEPT !.score = NULL, !.competitorCategory = NULL,
                          !.shortJustification = NullText,
                          !.detailedJustification = NullText]
           ELSE r : r \in rows }

\* EvaluateCompetitor that deletes the row when there is no parsed output.
EvaluateCompetitorDeletes(rows, id, outcome) ==
  IF outcome.kind = "parsed" THEN UpdateCompetitor(rows, id, outcome.parsed)
  ELSE { r \in rows : r.id # id }

\* The rows after one evaluation of competitor id whose provider call ends in
\* outcome: an update on a parsed output, nothing otherwise.
EvaluateCompetitor(rows, id, outcome) ==
  IF outcome.kind = "parsed" THEN UpdateCompetitor(rows, id, outcome.parsed) ELSE rows

EvaluateWrites(outcome) == IF outcome.kind = "parsed" THEN 1 ELSE 0

\* The name of company A in the comparison prompt: deal.companyName as read.
CompanyA == deal.companyName

\* One evaluate-competitor run of the orchestrator's batch.
EvaluateRun(id) ==
  /\ id \in DOMAIN evaluation
  /\ evaluation[id].st = "running"
  /\ \E outcome \in EvaluationEnds(RunEvaluationOutputs) :
       /\ competitors' = EvaluateCompetitor(competitors, id, outcome)
       /\ dbWrites' = dbWrites + EvaluateWrites(outcome)
       /\ evaluation' = [evaluation EXCEPT ![id] =
            [st |-> IF EvaluateRaised(outcome.kind) THEN "failed" ELSE "ok",
             companyA |-> CompanyA]]
  /\ UNCHANGED <<payload, pc, progress, failure, deal, dealFiles, upload, wbI, analysis,
                 discovery, competitorIds, replayLog, sanitizer, tokenApi, legacyRun, tables, runs, api, uploadApi, person, meter, killed>>

\* The platform ends an evaluate-competitor run at one of its awaits: before
\* the provider call has returned, or at prisma.competitor.update, whose
\* write may have been applied when the run ends.
EvaluateKilled(id) ==
  /\ id \in DOMAIN evaluation
  /\ evaluation[id].st = "running"
  /\ \E outcome \in AiEvaluations(RunEvaluationOutputs) :
       /\ competitors' = EvaluateCompetitor(competitors, id, outcome)
       /\ dbWrites' = dbWrites + EvaluateWrites(outcome)
  /\ evaluation' = [evaluation EXCEPT ![id] = [st |-> "failed", companyA |-> CompanyA]]
  /\ killed' = TRUE
  /\ UNCHANGED <<payload, pc, progress, failure, deal, dealFiles,
                 upload, wbI, analysis, discovery, competitorIds, replayLog, sanitizer, tokenApi, legacyRun, tables, runs, api, uploadApi, person, meter>>

CompetitorRow(rows, id) == CHOOSE r \in rows : r.id = id

\* The payload without a competitorId.
NoCompetitorId == <<>>

\* The run throws before its try block: the payload has no competitorId, or
\* prisma.competitor.findUnique found no row (with its deal) for it.
EvaluateLookupThrows(rows, id) ==
  id = NoCompetitorId \/ ~(\E r \in rows : r.id = id)

\* evaluate-competitor run again for an existing competitor, once the
\* orchestrator has returned; the log keeps the row before and after.
EvaluateReplay(id) ==
  /\ pc = "completed"
  /\ Len(replayLog) < MaxReplays
  /\ ~EvaluateLookupThrows(competitors, id)
  /\ \E outcome \in EvaluationEnds(EvaluationOutputs) :
       /\ competitors' = EvaluateCompetitor(competitors, id, outcome)
       /\ dbWrites' = dbWrites + EvaluateWrites(outcome)
       /\ replayLog' = Append(replayLog,
            [id |-> id, kind |-> outcome.kind,
             raised |-> EvaluateRaised(outcome.kind),
             mutated |-> EvaluateCompetitor(competitors, id, outcome) # competitors,
             before |-> CompetitorRow(competitors, id),
             after |-> CompetitorRow(EvaluateCompetitor(competitors, id, outcome), id)])
  /\ UNCHANGED <<payload, pc, progress, failure, deal, dealFiles, upload, wbI, analysis,
                 discovery, competitorIds, evaluation, sanitizer, tokenApi, legacyRun, tables, runs, api, uploadApi, person, meter, killed>>

\* evaluate-competitor run with no competitorId, or with the id of no row:
\* the run throws before the provider call and writes nothing.
EvaluateReplayNotFound(id) ==
  /\ pc = "completed"
  /\ Len(replayLog) < MaxReplays
  /\ EvaluateLookupThrows(competitors, id)
  /\ replayLog' = Append(replayLog,
       [id |-> id, kind |-> "notfound", raised |-> EvaluateRaised("notfound"),
        mutated |-> FALSE, before |-> NULL, after |-> NULL])
  /\ UNCHANGED <<payload, pc, progress, failure, deal, dealFiles, competitors, dbWrites,
                 upload, wbI, analysis, discovery, competitorIds, evaluation, sanitizer,
                 tokenApi, legacyRun, tables, runs, api, uploadApi, person, meter, killed>>

\* ---------------------------------------------------------- specifications
CompetitorIdValues ==
  { CompetitorId(c, k) : c \in ALL_COMPETITOR_TYPES, k \in 1..MaxCompetitors }

\* A step of the pipeline: the orchestrator or one of the runs it triggered.
Next ==
  \/ Start
  \/ AdapterBegin
  \/ AdapterFile
  \/ AdapterFileSettled
  \/ AdapterEnd
  \/ AdapterKilled
  \/ AfterUpload
  \/ WriteBackIter
  \/ WriteBackDone
  \/ AnalyzeDealRun
  \/ AnalyzeDealKilled
  \/ \E c \in ALL_COMPETITOR_TYPES : DiscoveryNoFiles(c)
  \/ \E c \in ALL_COMPETITOR_TYPES : DiscoveryAiFails(c)
  \/ \E c \in ALL_COMPETITOR_TYPES : DiscoveryParsed(c)
  \/ \E c \in ALL_COMPETITOR_TYPES : DiscoveryCreates(c)
  \/ \E c \in ALL_COMPETITOR_TYPES : DiscoveryCreateThrows(c)
  \/ \E c \in ALL_COMPETITOR_TYPES : DiscoveryKilled(c)
  \/ AfterAnalysis
  \/ \E id \in CompetitorIdValues : EvaluateRun(id)
  \/ \E id \in CompetitorIdValues : EvaluateKilled(id)
  \/ AfterEvaluation
  \/ FinishDealUpdate
  \/ Finish

\* One run of the upload orchestrator on a payload.
Spec == Init /\ [][Next]_vars

\* Every triggered run ends (each task has a maxDuration) and the orchestrator
\* resumes once its batch has returned.
FairSpec == Spec /\ WF_vars(Next)

\* ------------------------------------------------ the tasks, run on their own
\* File lists over two names and two storage URLs, repeats included.
FilePool == { [s3Url |-> FileUrls[u], originalFilename |-> FileNames[n]] :
                u \in 1..2, n \in 1..2 }

FileLists(lo, hi) == UNION { [1..n -> FilePool] : n \in lo..hi }

\* What the adapter returns for files when file i ends in outcomes[i].
AdapterResults(files, outcomes) ==
  [i \in 1..Len(files) |-> UploadResult(files[i], i, outcomes[i])]

\* The per-file results of an upload of files, in any order.
ResultLists(files) ==
  { [i \in 1..Len(files) |-> AdapterResults(files, o)[perm[i]]] :
      o \in [1..Len(files) -> {"ok", "create-failed"}],
      perm \in Permutations(1..Len(files)) }

QuietPayload == [dealId |-> "deal-1", userId |-> "user-1", s3Files |-> <<>>, freeText |-> ""]

\* No orchestrator run has started.
NoOrchestratorRun ==
  /\ progress = <<>>
  /\ failure = "none"
  /\ deal = PlaceholderDeal
  /\ dbWrites = 0
  /\ wbI = 1
  /\ analysis = IdleAnalysis
  /\ discovery = [c \in ALL_COMPETITOR_TYPES |-> IdleDiscovery]
  /\ competitorIds = <<>>
  /\ evaluation = <<>>

\* The upload-to-openai run of files as it has returned, file i having ended
\* in outcomes[i]; no run without files.
IngestionDone(files, outcomes) ==
  IF Len(files) = 0 THEN IdleUpload
  ELSE [st |-> "ok", files |-> files, i |-> Len(files) + 1,
        results |-> AdapterResults(files, outcomes),
        progress |-> <<5>> \o [k \in 1..Len(files) |-> ProgressPercent(k - 1, Len(files))]
                         \o <<100>>,
        error |-> "none"]

RECURSIVE WriteBackFrom(_, _, _, _)
\* The rows after the iterations i, i + 1, ... of the write-back loop.
WriteBackFrom(rows, files, results, i) ==
  IF i > Len(files) THEN rows
  ELSE WriteBackFrom(WriteBackBody(rows, files, results, i), files, results, i + 1)

\* upload-to-openai triggered with a file list of its own.
InitAdapter ==
  /\ NoOrchestratorRun
  /\ sanitizer = IdleSanitizer
  /\ tokenApi = IdleTokenApi
  /\ legacyRun = IdleLegacyRun
  /\ tables = InitialTables
  /\ runs = IdleRuns
  /\ api = IdleApi
  /\ uploadApi = IdleUploadApi
  /\ person = IdlePerson
  /\ meter = IdleMeter
  /\ payload = QuietPayload
  /\ pc = "idle"
  /\ upload \in { [IdleUpload EXCEPT !.st = "triggered", !.files = fs] :
                    fs \in FileLists(0, MaxFiles) }
  /\ dealFiles = <<>>
  /\ competitors = {}

\* The orchestrator at the start of its write-back loop, with the payload's
\* files and a given list of per-file results (status "given": not produced
\* by the adapter above): 5, 15 and 40 are reported, nothing is written.
InitWriteBack ==
  /\ progress = <<5, 15, 40>>
  /\ failure = "none"
  /\ deal = PlaceholderDeal
  /\ dbWrites = 0
  /\ wbI = 1
  /\ analysis = IdleAnalysis
  /\ discovery = [c \in ALL_COMPETITOR_TYPES |-> IdleDiscovery]
  /\ competitorIds = <<>>
  /\ evaluation = <<>>
  /\ sanitizer = IdleSanitizer
  /\ tokenApi = IdleTokenApi
  /\ legacyRun = IdleLegacyRun
  /\ tables = InitialTables
  /\ runs = IdleRuns
  /\ api = IdleApi
  /\ uploadApi = IdleUploadApi
  /\ person = IdlePerson
  /\ meter = IdleMeter
  /\ payload \in { [QuietPayload EXCEPT !.s3Files = fs] : fs \in FileLists(1, MaxFiles) }
  /\ pc = "writeback"
  /\ upload \in { [IdleUpload EXCEPT !.st = "given", !.files = payload.s3Files,
                     !.i = Len(payload.s3Files) + 1, !.results = rs] :
                    rs \in ResultLists(payload.s3Files) }
  /\ dealFiles = DealFileRows(payload.s3Files)
  /\ competitors = {}

\* A Competitor row as discovery created it (evaluated = FALSE), or as an
\* earlier evaluation with output e left it.
CompetitorRowWith(id, evaluated, e) ==
  IF evaluated
    THEN CompetitorRow(UpdateCompetitor({NewCompetitor(id[1], id[2])}, id, e), id)
    ELSE NewCompetitor(id[1], id[2])

\* The state a completed orchestrator run on one file leaves: the file is
\* ingested and written back, the analysis is parsed and stored on the deal,
\* the discovery branches have created some competitors and the evaluation
\* batch has evaluated each of them or not.
InitEvaluate ==
  /\ sanitizer = IdleSanitizer
  /\ tokenApi = IdleTokenApi
  /\ legacyRun = IdleLegacyRun
  /\ tables = InitialTables
  /\ runs = IdleRuns
  /\ api = IdleApi
  /\ uploadApi = IdleUploadApi
  /\ person = IdlePerson
  /\ meter = IdleMeter
  /\ payload = [QuietPayload EXCEPT !.s3Files = S3Files(1)]
  /\ pc = "completed"
  /\ progress = <<5, 15, 40, 50, 80, 100>>
  /\ failure = "none"
  /\ upload = IngestionDone(payload.s3Files, <<"ok">>)
  /\ wbI = Len(payload.s3Files) + 1
  /\ dealFiles = WriteBackFrom(DealFileRows(payload.s3Files), payload.s3Files,
                               upload.results, 1)
  /\ analysis = [st |-> "ok", ai |-> "parsed", output |-> ParsedAnalysis]
  /\ deal = UpdateDeal(PlaceholderDeal, analysis.output)
  /\ \E d \in [ALL_COMPETITOR_TYPES -> { [profiles |-> n] : n \in 0..MaxCompetitors }] :
       /\ SumProfiles(d, ALL_COMPETITOR_TYPES) \in 1..MaxCompetitors
       /\ discovery = [c \in ALL_COMPETITOR_TYPES |->
            [st |-> "ok", ai |-> "parsed", profiles |-> d[c].profiles,
             created |-> d[c].profiles, hasIds |-> TRUE, wroteDeal |-> FALSE]]
       /\ competitorIds = CollectCompetitorIds(discovery, 1)
       /\ LET ids == Range(competitorIds)
          IN /\ evaluation = [id \in ids |->
                               [st |-> "ok", companyA |-> PlaceholderDeal.companyName]]
             /\ \E evaluated \in [ids -> BOOLEAN], e \in [ids -> EvaluationOutputs] :
                  /\ \A id \in ids :
                       ~evaluated[id] => e[id] = CHOOSE x \in EvaluationOutputs : TRUE
                  /\ competitors = { CompetitorRowWith(id, evaluated[id], e[id]) : id \in ids }
                  /\ dbWrites = WriteBackWrites(upload.results, 1) + Cardinality(ids)
                                  + Cardinality({ id \in ids : evaluated[id] }) + 1

\* The pieces input texts are made of: plain words, a space, a carriage
\* return, a no-break space, whole markers and parts of markers.
TextPieces ==
  { <<"c", "i">>, <<"t", "e">>, <<"[", "1", "]">>, <<" ">>, <<"\r">>, <<"U+00A0">>,
    <<"F", "o", "o">>, <<"c", "i", "t", "e">>, <<"U+E000">>, <<"[">>, <<"]">>,
    <<"t", "u", "r", "n", "2", "s", "e", "a", "r", "c", "h", "3">> }

RECURSIVE TextsOf(_)
\* The texts made of at most n pieces.
TextsOf(n) ==
  IF n = 0 THEN { <<>> }
  ELSE TextsOf(n - 1) \cup { t \o q : t \in TextsOf(n - 1), q \in TextPieces }

ExampleText == <<"F", "o", "o", " ", "[", "1", "]", " ", "b", "a", "r", " ", "c", "i", "t", "e", " ", "t", "u", "r", "n", "2", "s", "e", "a", "r", "c", "h", "3", " ", "b", "a", "z">>

\* sanitizeCitations about to be applied to a text.
InitSanitize ==
  /\ NoOrchestratorRun
  /\ sanitizer \in { [on |-> TRUE, input |-> t, results |-> <<>>] :
                       t \in TextsOf(MaxPieces) \cup {ExampleText, NullText} }
  /\ tokenApi = IdleTokenApi
  /\ legacyRun = IdleLegacyRun
  /\ tables = InitialTables
  /\ runs = IdleRuns
  /\ api = IdleApi
  /\ uploadApi = IdleUploadApi
  /\ person = IdlePerson
  /\ meter = IdleMeter
  /\ payload = QuietPayload
  /\ pc = "idle"
  /\ upload = IdleUpload
  /\ dealFiles = <<>>
  /\ competitors = {}

\* sanitizeCitations applied to the input or, after that, to its own result.
SanitizeCall ==
  /\ sanitizer.on
  /\ Len(sanitizer.results) < MaxSanitizeCalls
  /\ sanitizer' = [sanitizer EXCEPT !.results =
       Append(@, sanitizeCitations(IF Len(@) = 0 THEN sanitizer.input ELSE @[Len(@)]))]
  /\ UNCHANGED <<payload, pc, progress, failure, deal, dealFiles, competitors, dbWrites,
                 upload, wbI, analysis, discovery, competitorIds, evaluation, replayLog,
                 tokenApi, legacyRun, tables, runs, api, uploadApi, person, meter, killed>>

\* ---- the public-token API route (pages/api/trigger/public-token)
\* The orchestrator runs, and the deal each run was triggered for
\* (payload.dealId of the run).
RunIds == {"run1", "run2", "run3"}
RunDealId(runId) ==
  CASE runId = "run1" -> "d1"
    [] runId = "run2" -> "d2"
    [] runId = "run3" -> "d3"

\* The values of the dealId and runId query parameters; NULL when absent,
\* "d9" an id of no deal.
QueryDealIds == {NULL, "d1", "d2", "d3", "d9"}
QueryRunIds == {NULL} \cup RunIds

\* prisma.deal.findFirst({ where: { id: dealId, assignedToId: userId,
\* deleted: false } }): a filter whose value is undefined is left out.
FindFirstDeal(dealId, userId) ==
  { d \in tables.deals : /\ (dealId = NULL \/ d.id = dealId)
                        /\ d.assignedToId = userId
                        /\ ~d.deleted }

\* The scope of the token the handler creates: read.runs = [runId] when the
\* request carries a runId, read.tags = [`deal:${dealId}`] otherwise.
TokenScope(dealId, runId) ==
  IF runId # NULL THEN [kind |-> "runs", value |-> runId]
  ELSE [kind |-> "tags", value |-> dealId]

\* One request about to reach the route, while the deals API is in service.
InitToken ==
  /\ NoOrchestratorRun
  /\ tokenApi \in { [on |-> TRUE, pc |-> "request", session |-> u, dealId |-> d,
                     runId |-> r, response |-> [status |-> 0, scope |-> NoScope]] :
                      u \in {NULL} \cup Users, d \in QueryDealIds, r \in QueryRunIds }
  /\ sanitizer = IdleSanitizer
  /\ legacyRun = IdleLegacyRun
  /\ uploadApi = IdleUploadApi
  /\ person = IdlePerson
  /\ meter = IdleMeter
  /\ tables = InitialTables
  /\ runs = IdleRuns
  /\ api = [IdleApi EXCEPT !.on = TRUE]
  /\ payload = QuietPayload
  /\ pc = "idle"
  /\ upload = IdleUpload
  /\ dealFiles = <<>>
  /\ competitors = {}

\* The handler, one await at a time.  "request": getServerSession is awaited;
\* on its return the handler answers 401 or 400, or issues
\* prisma.deal.findFirst.  "find": findFirst has read the table; the handler
\* answers 404 or calls auth.createPublicToken.  "create": the token is made
\* and answered with 200.  A throw of an awaited call is caught and answered
\* with 500.  Requests of the deals API are served between the awaits.
PublicTokenHandler ==
  /\ tokenApi.on
  /\ \/ /\ tokenApi.pc \in {"request", "find", "create"}
        /\ tokenApi' = [tokenApi EXCEPT !.pc = "answered",
                                        !.response = [status |-> 500, scope |-> NoScope]]
     \/ /\ tokenApi.pc = "request"
        /\ tokenApi' =
             IF tokenApi.session = NULL
               THEN [tokenApi EXCEPT !.pc = "answered",
                                     !.response = [status |-> 401, scope |-> NoScope]]
             ELSE IF tokenApi.dealId = NULL /\ tokenApi.runId = NULL
               THEN [tokenApi EXCEPT !.pc = "answered",
                                     !.response = [status |-> 400, scope |-> NoScope]]
             ELSE [tokenApi EXCEPT !.pc = "find"]
     \/ /\ tokenApi.pc = "find"
        /\ tokenApi' =
             IF FindFirstDeal(tokenApi.dealId, tokenApi.session) = {}
               THEN [tokenApi EXCEPT !.pc = "answered",
                                     !.response = [status |-> 404, scope |-> NoScope]]
             ELSE [tokenApi EXCEPT !.pc = "create"]
     \/ /\ tokenApi.pc = "create"
        /\ tokenApi' = [tokenApi EXCEPT
             !.pc = "answered",
             !.response = [status |-> 200,
                           scope |-> TokenScope(tokenApi.dealId, tokenApi.runId)]]
  /\ UNCHANGED <<payload, pc, progress, failure, deal, dealFiles, competitors, dbWrites,
                 upload, wbI, analysis, discovery, competitorIds, evaluation, replayLog,
                 sanitizer, legacyRun, tables, runs, api, uploadApi, person, meter, killed>>

\* ---- trigger/uploadOrchestrator.ts, step 5
\* The variant of the orchestrator in trigger/uploadOrchestrator.ts has
\* finished its step 4 and stands before step 5: the files are ingested (each
\* with its own outcome), the deal is analysed and updated (step 3), the rows
\* of the ingested files carry their identifiers (step 4), and 5, 15 (with
\* files), 40 and 70 are reported.
InitLegacy ==
  /\ \E p \in Payloads : \E o \in [1..Len(p.s3Files) -> {"ok", "create-failed"}] :
       \E ai \in AiOutcomes :
       /\ ValidationError(p) = "none"
       /\ payload = p
       /\ upload = IngestionDone(p.s3Files, o)
       /\ LET ap == [openaiFileIds |-> OpenaiFileIds(upload.results),
                     freeText |-> p.freeText]
          IN /\ AnalyzeDealCallsAi(ap) \/ ai = "parsed"
             /\ analysis = [st |-> "ok",
                            ai |-> IF AnalyzeDealCallsAi(ap) THEN ai ELSE "none",
                            output |-> AnalyzeDealOutput(ap, ai)]
       /\ progress = <<5>> \o (IF HasFiles(p) THEN <<15>> ELSE <<>>) \o <<40, 70>>
       /\ deal = UpdateDeal(PlaceholderDeal, analysis.output)
       /\ dealFiles = WriteBackFrom(DealFileRows(p.s3Files), p.s3Files, upload.results, 1)
       /\ dbWrites = 1 + Len(OpenaiFileIds(upload.results))
       /\ wbI = Len(p.s3Files) + 1
  /\ pc = "legacy-step5"
  /\ failure = "none"
  /\ discovery = [c \in ALL_COMPETITOR_TYPES |-> IdleDiscovery]
  /\ competitorIds = <<>>
  /\ evaluation = <<>>
  /\ legacyRun = IdleLegacyRun
  /\ tables = InitialTables
  /\ runs = IdleRuns
  /\ api = IdleApi
  /\ uploadApi = IdleUploadApi
  /\ person = IdlePerson
  /\ meter = IdleMeter
  /\ competitors = {}
  /\ sanitizer = IdleSanitizer
  /\ tokenApi = IdleTokenApi

\* Step 5 up to its await: 85 is reported and analyzeCompetitorsTask.trigger
\* is called.
LegacyStep5 ==
  /\ pc = "legacy-step5"
  /\ progress' = Append(progress, 85)
  /\ pc' = "legacy-trigger"
  /\ UNCHANGED <<payload, failure, deal, dealFiles, competitors, dbWrites, upload, wbI,
                 analysis, discovery, competitorIds, evaluation, replayLog, sanitizer,
                 tokenApi, legacyRun, tables, runs, api, uploadApi, person, meter, killed>>

\* The trigger call has returned, with a run that is not waited for, or has
\* thrown (caught and logged): 100 is reported and the final
\* prisma.deal.findUnique is issued.
LegacyTriggerCompetitors ==
  /\ pc = "legacy-trigger"
  /\ \E triggered \in BOOLEAN :
       legacyRun' = IF triggered THEN [st |-> "running", pc |-> "read", updates |-> 0]
                    ELSE legacyRun
  /\ progress' = Append(progress, 100)
  /\ pc' = "legacy-final-read"
  /\ UNCHANGED <<payload, failure, deal, dealFiles, competitors, dbWrites, upload, wbI,
                 analysis, discovery, competitorIds, evaluation, replayLog, sanitizer,
                 tokenApi, tables, runs, api, uploadApi, person, meter, killed>>

\* The final read has returned: run returns { success: true, deal }.
LegacyReturn ==
  /\ pc = "legacy-final-read"
  /\ pc' = "completed"
  /\ UNCHANGED <<payload, progress, failure, deal, dealFiles, competitors, dbWrites, upload,
                 wbI, analysis, discovery, competitorIds, evaluation, replayLog, sanitizer,
                 tokenApi, legacyRun, tables, runs, api, uploadApi, person, meter, killed>>

\* The triggered analyze-competitors run ({ dealId }), one await at a time.
\* "read": prisma.deal.findUnique has returned the deal with its files; with
\* no file identifier the run issues prisma.deal.update with an empty list,
\* otherwise it calls the provider.  "ai": the provider call has returned (a
\* parsed list or none) and the update with the result is issued, or it has
\* thrown and the catch block issues the update with the fallback.  Every
\* prisma.deal.update of the run has data { competitors: ... }, which the
\* deals table has no column for: the client rejects it and writes no row.
\* The update outside the try block ("save-empty") and the one of the catch
\* block ("save-fallback") end the run failed; the one inside the try block
\* ("save") is caught.
LegacyCompetitorsRun ==
  /\ legacyRun.st = "running"
  /\ \/ /\ legacyRun.pc = "read"
        /\ legacyRun' = IF Len(DealOpenaiFileIds) = 0
                          THEN [legacyRun EXCEPT !.pc = "save-empty", !.updates = @ + 1]
                          ELSE [legacyRun EXCEPT !.pc = "ai"]
     \/ /\ legacyRun.pc = "ai"
        /\ \E ai \in AiOutcomes :
             legacyRun' = [legacyRun EXCEPT
               !.pc = IF ai = "throw" THEN "save-fallback" ELSE "save",
               !.updates = @ + 1]
     \/ /\ legacyRun.pc = "save"
        /\ legacyRun' = [legacyRun EXCEPT !.pc = "save-fallback", !.updates = @ + 1]
     \/ /\ legacyRun.pc \in {"save-empty", "save-fallback"}
        /\ legacyRun' = [legacyRun EXCEPT !.st = "failed", !.pc = "done"]
  /\ UNCHANGED <<payload, pc, progress, failure, deal, dealFiles, competitors, dbWrites,
                 upload, wbI, analysis, discovery, competitorIds, evaluation, replayLog,
                 sanitizer, tokenApi, tables, runs, api, uploadApi, person, meter, killed>>

\* The platform ends the triggered run (maxDuration: 600) at one of its awaits.
LegacyCompetitorsRunKilled ==
  /\ legacyRun.st = "running"
  /\ legacyRun' = [legacyRun EXCEPT !.st = "failed", !.pc = "done"]
  /\ killed' = TRUE
  /\ UNCHANGED <<payload, pc, progress, failure, deal, dealFiles, competitors, dbWrites,
                 upload, wbI, analysis, discovery, competitorIds, evaluation, replayLog,
                 sanitizer, tokenApi, tables, runs, api, uploadApi, person, meter>>

\* ---- pipeline runs of several subjects over the shared tables
\* The provider file id a subject's file is ingested as, and the name the
\* synthesis gives the subject.
IngestedId(d) == IF d = "d1" THEN "file-d1" ELSE "file-d2"
SynthesisName(d) == IF d = "d1" THEN "Acme" ELSE "Bolt"

\* updateMany whose where clause leaves out the dealId.
UpdateManyAnyDeal(rows, dealId, originalName, url, openaiFileId) ==
  { IF r.originalName = originalName /\ r.url = url
      THEN [r EXCEPT !.openaiFileId = openaiFileId] ELSE r : r \in rows }

\* prisma.dealFile.updateMany({ where: {dealId, originalName, url}, data: {openaiFileId} })
UpdateManyOfDeal(rows, dealId, originalName, url, openaiFileId) ==
  { IF r.dealId = dealId /\ r.originalName = originalName /\ r.url = url
      THEN [r EXCEPT !.openaiFileId = openaiFileId] ELSE r : r \in rows }

\* The Competitor row prisma.competitor.create makes for subject d; the
\* database gives every row an id of its own.
CreatedCompetitor(d) == [id |-> <<"competitor", d>>, dealId |-> d, score |-> NULL]

\* The orchestrator's write-back (step 2) for subject d.
RunWriteBack(d) ==
  /\ runs[d] = "writeback"
  /\ tables' = [tables EXCEPT !.dealFiles =
       UpdateManyOfDeal(@, d, "deck.pdf", "s3://deck.pdf", IngestedId(d))]
  /\ runs' = [runs EXCEPT ![d] = "discovery"]
  /\ UNCHANGED <<payload, pc, progress, failure, deal, dealFiles, competitors, dbWrites,
                 upload, wbI, analysis, discovery, competitorIds, evaluation, replayLog,
                 sanitizer, tokenApi, legacyRun, api, uploadApi, person, meter, killed>>

\* A discovery branch for subject d: prisma.deal.findUnique({ where: {id} })
\* finds the row, soft-deleted or not, and the create loop creates a row.
RunDiscovery(d) ==
  /\ runs[d] = "discovery"
  /\ \E row \in tables.deals : row.id = d
  /\ tables' = [tables EXCEPT !.competitors = @ \cup {CreatedCompetitor(d)}]
  /\ runs' = [runs EXCEPT ![d] = "evaluate"]
  /\ UNCHANGED <<payload, pc, progress, failure, deal, dealFiles, competitors, dbWrites,
                 upload, wbI, analysis, discovery, competitorIds, evaluation, replayLog,
                 sanitizer, tokenApi, legacyRun, api, uploadApi, person, meter, killed>>

\* The evaluation of the competitor created for subject d:
\* prisma.competitor.update({ where: {id}, data })
RunEvaluate(d) ==
  /\ runs[d] = "evaluate"
  /\ tables' = [tables EXCEPT !.competitors =
       { IF r.id = CreatedCompetitor(d).id THEN [r EXCEPT !.score = "7"] ELSE r : r \in @ }]
  /\ runs' = [runs EXCEPT ![d] = "update"]
  /\ UNCHANGED <<payload, pc, progress, failure, deal, dealFiles, competitors, dbWrites,
                 upload, wbI, analysis, discovery, competitorIds, evaluation, replayLog,
                 sanitizer, tokenApi, legacyRun, api, uploadApi, person, meter, killed>>

\* The orchestrator's step 5 for subject d: prisma.deal.update({ where: {id}, data })
RunDealUpdate(d) ==
  /\ runs[d] = "update"
  /\ tables' = [tables EXCEPT !.deals =
       { IF r.id = d THEN [r EXCEPT !.companyName = SynthesisName(d)] ELSE r : r \in @ }]
  /\ runs' = [runs EXCEPT ![d] = "completed"]
  /\ UNCHANGED <<payload, pc, progress, failure, deal, dealFiles, competitors, dbWrites,
                 upload, wbI, analysis, discovery, competitorIds, evaluation, replayLog,
                 sanitizer, tokenApi, legacyRun, api, uploadApi, person, meter, killed>>

\* ---- the deals API routes (pages/api/deals)
\* The id the database gives the deal a POST creates.
NewDealId == "d4"
ApiDealIds == {"d1", "d2", "d3", "d9"}

\* The response record of a request.
ApiResponse(method, user, id, status, body) ==
  [on |-> TRUE, method |-> method, user |-> user, id |-> id, status |-> status,
   body |-> body]

\* findMany({ where: { assignedToId, deleted: false } })
FindManyDeals(userId) ==
  { d.id : d \in { r \in tables.deals : r.assignedToId = userId /\ ~r.deleted } }

\* GET /api/deals
ApiListDeals(user) ==
  /\ api.on
  /\ api' = IF user = NULL THEN ApiResponse("LIST", user, NULL, 401, {})
            ELSE ApiResponse("LIST", user, NULL, 200, FindManyDeals(user))
  /\ UNCHANGED <<payload, pc, progress, failure, deal, dealFiles, competitors, dbWrites,
                 upload, wbI, analysis, discovery, competitorIds, evaluation, replayLog,
                 sanitizer, tokenApi, legacyRun, tables, runs, uploadApi, person, meter, killed>>

\* GET /api/deals/{id}
ApiGetDeal(user, id) ==
  /\ api.on
  /\ api' = IF user = NULL THEN ApiResponse("GET", user, id, 401, {})
            ELSE IF FindFirstDeal(id, user) = {} THEN ApiResponse("GET", user, id, 404, {})
            ELSE ApiResponse("GET", user, id, 200, { d.id : d \in FindFirstDeal(id, user) })
  /\ UNCHANGED <<payload, pc, progress, failure, deal, dealFiles, competitors, dbWrites,
                 upload, wbI, analysis, discovery, competitorIds, evaluation, replayLog,
                 sanitizer, tokenApi, legacyRun, tables, runs, uploadApi, person, meter, killed>>

\* update({ where: { id, assignedToId }, data: { deleted: true } }), made
\* after findFirst({ where: { id, assignedToId } }) has found the row.
SoftDelete(rows, id, userId) ==
  { IF r.id = id /\ r.assignedToId = userId THEN [r EXCEPT !.deleted = TRUE] ELSE r :
      r \in rows }

\* DELETE /api/deals?id=
ApiDeleteDeal(user, id) ==
  /\ api.on
  /\ IF user = NULL
       THEN api' = ApiResponse("DELETE", user, id, 401, {}) /\ UNCHANGED tables
     ELSE IF id = NULL
       THEN api' = ApiResponse("DELETE", user, id, 400, {}) /\ UNCHANGED tables
     ELSE IF ~(\E r \in tables.deals : r.id = id /\ r.assignedToId = user)
       THEN api' = ApiResponse("DELETE", user, id, 404, {}) /\ UNCHANGED tables
     ELSE /\ tables' = [tables EXCEPT !.deals = SoftDelete(@, id, user)]
          /\ api' = ApiResponse("DELETE", user, id, 200, {id})
  /\ UNCHANGED <<payload, pc, progress, failure, deal, dealFiles, competitors, dbWrites,
                 upload, wbI, analysis, discovery, competitorIds, evaluation, replayLog,
                 sanitizer, tokenApi, legacyRun, runs, uploadApi, person, meter, killed>>

\* POST /api/deals: a new deal assigned to the caller.
ApiCreateDeal(user) ==
  /\ api.on
  /\ IF user = NULL
       THEN api' = ApiResponse("POST", user, NULL, 401, {}) /\ UNCHANGED tables
       ELSE /\ ~(\E r \in tables.deals : r.id = NewDealId)
            /\ tables' = [tables EXCEPT !.deals = @ \cup
                 {[id |-> NewDealId, assignedToId |-> user, deleted |-> FALSE,
                   companyName |-> "New Co"]}]
            /\ api' = ApiResponse("POST", user, NewDealId, 201, {NewDealId})
  /\ UNCHANGED <<payload, pc, progress, failure, deal, dealFiles, competitors, dbWrites,
                 upload, wbI, analysis, discovery, competitorIds, evaluation, replayLog,
                 sanitizer, tokenApi, legacyRun, runs, uploadApi, person, meter, killed>>

\* The deals API in service while pipeline runs of the run subjects are under
\* way or not started.
InitTables ==
  /\ NoOrchestratorRun
  /\ tables = InitialTables
  /\ runs \in [RunSubjects -> {"none", "writeback"}]
  /\ api = [IdleApi EXCEPT !.on = TRUE]
  /\ sanitizer = IdleSanitizer
  /\ tokenApi = IdleTokenApi
  /\ legacyRun = IdleLegacyRun
  /\ uploadApi = IdleUploadApi
  /\ person = IdlePerson
  /\ meter = IdleMeter
  /\ payload = QuietPayload
  /\ pc = "idle"
  /\ upload = IdleUpload
  /\ dealFiles = <<>>
  /\ competitors = {}

\* ---- the synchronous upload API route (pages/api/deals/upload)
\* The files a request may carry: a PDF, a text file, and a file that is a
\* PDF by its extension only.
FormFiles ==
  { [mimetype |-> "application/pdf", originalFilename |-> "a.pdf"],
    [mimetype |-> "text/plain", originalFilename |-> "b.txt"],
    [mimetype |-> "application/octet-stream", originalFilename |-> "C.PDF"] }

\* file.mimetype === 'application/pdf' ||
\* (file.originalFilename || '').toLowerCase().endsWith('.pdf')
IsPdf(file) ==
  \/ file.mimetype = "application/pdf"
  \/ file.originalFilename \in {"a.pdf", "C.PDF"}

\* The files whose callback passes the PDF check and so calls uploadToS3:
\* Array.prototype.map runs every callback up to its first await, whatever
\* the other callbacks do.
PdfCallbacks(files) == { i \in 1..Len(files) : IsPdf(files[i]) }

\* One request about to reach the route, from a signed-in user.
InitUploadApi ==
  /\ NoOrchestratorRun
  /\ \E n \in 0..MaxFiles : \E fs \in [1..n -> FormFiles] :
       \E t \in {"", "a seed-stage rocket company"} :
         uploadApi = [IdleUploadApi EXCEPT !.on = TRUE, !.pc = "request", !.files = fs,
                                           !.freeText = t]
  /\ sanitizer = IdleSanitizer
  /\ tokenApi = IdleTokenApi
  /\ legacyRun = IdleLegacyRun
  /\ tables = InitialTables
  /\ runs = IdleRuns
  /\ api = IdleApi
  /\ person = IdlePerson
  /\ meter = IdleMeter
  /\ payload = QuietPayload
  /\ pc = "idle"
  /\ upload = IdleUpload
  /\ dealFiles = <<>>
  /\ competitors = {}

\* The handler from the parsed form to its first await.  Without files and
\* text it answers 400.  Otherwise every callback of the file map runs up to
\* its first await: a file that is not a PDF rejects its promise, a PDF starts
\* its S3 upload.  With a rejected promise Promise.all rejects and the catch
\* block answers 500 before any upload can end; without files the handler
\* goes on to the analysis; with PDFs only it waits for the callbacks.
UploadApiHandler ==
  /\ uploadApi.on
  /\ uploadApi.pc = "request"
  /\ LET files == uploadApi.files
         started == PdfCallbacks(files)
     IN IF Len(files) = 0 /\ uploadApi.freeText = ""
          THEN uploadApi' = [uploadApi EXCEPT !.status = 400, !.pc = "answered"]
        ELSE IF started # 1..Len(files)
          THEN uploadApi' = [uploadApi EXCEPT !.status = 500, !.pc = "answered",
                                              !.inflight = started]
        ELSE uploadApi' = [uploadApi EXCEPT
               !.pc = IF Len(files) = 0 THEN "analysis" ELSE "uploads",
               !.inflight = started]
  /\ UNCHANGED <<payload, pc, progress, failure, deal, dealFiles, competitors, dbWrites,
                 upload, wbI, analysis, discovery, competitorIds, evaluation, replayLog,
                 sanitizer, tokenApi, legacyRun, tables, runs, api, person, meter, killed>>

\* await uploadToS3(file) of callback i ends: the file is stored and
\* uploadToOpenAI is called, or the upload throws and the callback's promise
\* rejects, which a handler waiting in Promise.all answers with 500.
UploadS3Settles(i) ==
  /\ i \in uploadApi.inflight \ uploadApi.s3
  /\ \/ uploadApi' = [uploadApi EXCEPT !.s3 = @ \cup {i}]
     \/ uploadApi' = [uploadApi EXCEPT
          !.inflight = @ \ {i},
          !.status = IF uploadApi.pc = "uploads" THEN 500 ELSE @,
          !.pc = IF uploadApi.pc = "uploads" THEN "answered" ELSE @]
  /\ UNCHANGED <<payload, pc, progress, failure, deal, dealFiles, competitors, dbWrites,
                 upload, wbI, analysis, discovery, competitorIds, evaluation, replayLog,
                 sanitizer, tokenApi, legacyRun, tables, runs, api, person, meter, killed>>

\* await uploadToOpenAI(file) of callback i ends, with an identifier or, on
\* its caught error, with null.  When it is the last callback of a handler
\* waiting in Promise.all, the handler goes on to the analysis.
UploadOpenAiSettles(i) ==
  /\ i \in uploadApi.inflight \cap uploadApi.s3
  /\ \E ingested \in BOOLEAN :
       uploadApi' = [uploadApi EXCEPT
         !.inflight = @ \ {i},
         !.openai = IF ingested THEN @ \cup {i} ELSE @,
         !.pc = IF uploadApi.pc = "uploads" /\ uploadApi.inflight = {i}
                  THEN "analysis" ELSE @]
  /\ UNCHANGED <<payload, pc, progress, failure, deal, dealFiles, competitors, dbWrites,
                 upload, wbI, analysis, discovery, competitorIds, evaluation, replayLog,
                 sanitizer, tokenApi, legacyRun, tables, runs, api, person, meter, killed>>

\* The handler after its uploads, one await at a time: analyzeDealDocuments
\* (which returns a record whatever the provider does), prisma.deal.create,
\* prisma.dealFile.createMany (with files), prisma.deal.findUnique,
\* analyzeCompetitorsTask.trigger (a throw is caught), and the 201 response.
UploadApiContinues ==
  /\ uploadApi.on
  /\ \/ /\ uploadApi.pc = "analysis"
        /\ uploadApi' = [uploadApi EXCEPT !.pc = "deal-create"]
     \/ /\ uploadApi.pc = "deal-create"
        /\ uploadApi' = [uploadApi EXCEPT
             !.dealRows = 1,
             !.pc = IF Len(uploadApi.files) > 0 THEN "files-create" ELSE "final-read"]
     \/ /\ uploadApi.pc = "files-create"
        /\ uploadApi' = [uploadApi EXCEPT !.fileRows = Len(uploadApi.files),
                                          !.pc = "final-read"]
     \/ /\ uploadApi.pc = "final-read"
        /\ uploadApi' = [uploadApi EXCEPT !.pc = "trigger"]
     \/ /\ uploadApi.pc = "trigger"
        /\ \E triggered \in BOOLEAN :
             uploadApi' = [uploadApi EXCEPT !.triggered = triggered, !.status = 201,
                                            !.pc = "answered"]
  /\ UNCHANGED <<payload, pc, progress, failure, deal, dealFiles, competitors, dbWrites,
                 upload, wbI, analysis, discovery, competitorIds, evaluation, replayLog,
                 sanitizer, tokenApi, legacyRun, tables, runs, api, person, meter, killed>>

\* ------------------------------------------------ the add-person orchestrator
\* How the person-details fetch of an orchestrator run ended.  "saved" and
\* "dbError" are the two ways fetchPersonDetails.run returns a record (the
\* details saved, or fetched with the save failed and caught); "noMethod" is
\* the call that raised before any run existed.
FetchPersonDetailsOk(outcome) == outcome \in {"saved", "dbError"}

\* person.id of the webhook body; 0 stands for a missing or zero id, both falsy
PersonIds == {0, 7}

\* The webhook has received a body, with or without person.id.
InitPerson ==
  /\ NoOrchestratorRun
  /\ \E id \in PersonIds :
       person = [IdlePerson EXCEPT !.on = TRUE, !.pc = "webhook", !.personId = id]
  /\ uploadApi = IdleUploadApi
  /\ sanitizer = IdleSanitizer
  /\ tokenApi = IdleTokenApi
  /\ legacyRun = IdleLegacyRun
  /\ tables = InitialTables
  /\ runs = IdleRuns
  /\ api = IdleApi
  /\ meter = IdleMeter
  /\ payload = QuietPayload
  /\ pc = "idle"
  /\ upload = IdleUpload
  /\ dealFiles = <<>>
  /\ competitors = {}

\* The webhook up to its first await: without a person id it answers 200, with
\* one it imports the SDK.
RegisterPersonWebhook ==
  /\ person.on
  /\ person.pc = "webhook"
  /\ person' = IF person.personId # 0
                 THEN [person EXCEPT !.pc = "importing"]
                 ELSE [person EXCEPT !.pc = "ignored", !.status = 200]
  /\ UNCHANGED <<payload, pc, progress, failure, deal, dealFiles, competitors, dbWrites, upload,
                 wbI, analysis, discovery, competitorIds, evaluation, replayLog,
                 sanitizer, tokenApi, legacyRun, tables, runs, api, uploadApi, meter, killed>>

\* The awaits of the webhook's try block: the import, then tasks.trigger of
\* add-person-orchestrator.  Either may reject: the catch block records
\* triggerError and no run exists.  The webhook answers 200 either way.
RegisterPersonTrigger ==
  /\ person.on
  /\ \/ /\ person.pc = "importing"
        /\ \/ person' = [person EXCEPT !.pc = "triggering"]
           \/ person' = [person EXCEPT !.pc = "trigger-failed", !.status = 200,
                                       !.triggerError = TRUE]
     \/ /\ person.pc = "triggering"
        /\ \/ person' = [person EXCEPT !.pc = "waiting", !.status = 200,
                                       !.orchestratorTriggered = TRUE]
           \/ person' = [person EXCEPT !.pc = "trigger-failed", !.status = 200,
                                       !.triggerError = TRUE]
  /\ UNCHANGED <<payload, pc, progress, failure, deal, dealFiles, competitors, dbWrites, upload,
                 wbI, analysis, discovery, competitorIds, evaluation, replayLog,
                 sanitizer, tokenApi, legacyRun, tables, runs, api, uploadApi, meter, killed>>

\* AddPersonWait whose catch block returns the record of the try block.
AddPersonWaitReportsSuccess ==
  /\ person.on
  /\ person.pc = "waiting"
  /\ person' = [person EXCEPT !.pc = "returned", !.waited = TRUE, !.fetch = "noMethod",
                              !.success = TRUE, !.waitStep = "completed",
                              !.fetchStep = "completed"]
  /\ UNCHANGED <<payload, pc, progress, failure, deal, dealFiles, competitors, dbWrites, upload,
                 wbI, analysis, discovery, competitorIds, evaluation, replayLog,
                 sanitizer, tokenApi, legacyRun, tables, runs, api, uploadApi, meter, killed>>

\* await wait.for({ minutes: 1 }) has returned and the try block goes on to
\* fetchPersonDetails.triggerByTaskAndWait(...).  fetchPersonDetails is a task
\* object, and triggerByTaskAndWait is a member of batch, not of a task: the
\* call raises a TypeError before any child run is triggered, and the catch
\* block returns success: false with wait_one_minute completed and
\* fetch_person_details failed.
AddPersonWait ==
  /\ person.on
  /\ person.pc = "waiting"
  /\ person' = [person EXCEPT !.pc = "returned", !.waited = TRUE, !.fetch = "noMethod",
                              !.success = FALSE, !.waitStep = "completed",
                              !.fetchStep = "failed"]
  /\ UNCHANGED <<payload, pc, progress, failure, deal, dealFiles, competitors, dbWrites, upload,
                 wbI, analysis, discovery, competitorIds, evaluation, replayLog,
                 sanitizer, tokenApi, legacyRun, tables, runs, api, uploadApi, meter, killed>>

\* ------------------------------------- the ingestion run's progress reports
\* upload-to-openai triggered with a list of totalFiles files; of the run only
\* the values handed to metadata.set are followed.
InitMeter ==
  /\ NoOrchestratorRun
  /\ \E n \in 1..MaxTotalFiles : meter = [IdleMeter EXCEPT !.on = TRUE, !.totalFiles = n]
  /\ person = IdlePerson
  /\ uploadApi = IdleUploadApi
  /\ sanitizer = IdleSanitizer
  /\ tokenApi = IdleTokenApi
  /\ legacyRun = IdleLegacyRun
  /\ tables = InitialTables
  /\ runs = IdleRuns
  /\ api = IdleApi
  /\ payload = QuietPayload
  /\ pc = "idle"
  /\ upload = IdleUpload
  /\ dealFiles = <<>>
  /\ competitors = {}

\* The next metadata.set of the run: 5 before the loop, progressPercent at
\* the head of each iteration, 100 after the loop.
AdapterReports ==
  /\ meter.on
  /\ meter.reports < meter.totalFiles + 2
  /\ meter' = [meter EXCEPT
       !.reports = @ + 1,
       !.prev = meter.last,
       !.last = IF meter.reports = 0 THEN 5
                ELSE IF meter.reports <= meter.totalFiles
                  THEN ProgressPercent(meter.reports - 1, meter.totalFiles)
                ELSE 100]
  /\ UNCHANGED <<payload, pc, progress, failure, deal, dealFiles, competitors, dbWrites, upload,
                 wbI, analysis, discovery, competitorIds, evaluation, replayLog, sanitizer,
                 tokenApi, legacyRun, tables, runs, api, uploadApi, person, killed>>

\* A task, route or helper on inputs of its own, at the point its unit starts.
UnitInit ==
  /\ (InitAdapter \/ InitWriteBack \/ InitEvaluate \/ InitSanitize \/ InitToken \/ InitLegacy
      \/ InitTables \/ InitUploadApi \/ InitPerson \/ InitMeter)
  /\ replayLog = <<>>
  /\ killed = FALSE

UnitNext ==
  \/ AdapterBegin
  \/ AdapterFile
  \/ AdapterFileSettled
  \/ AdapterEnd
  \/ AdapterKilled
  \/ WriteBackIter
  \/ \E id \in CompetitorIdValues : EvaluateReplay(id)
  \/ \E id \in CompetitorIdValues \cup {NoCompetitorId} : EvaluateReplayNotFound(id)
  \/ SanitizeCall
  \/ PublicTokenHandler
  \/ LegacyStep5
  \/ LegacyTriggerCompetitors
  \/ LegacyReturn
  \/ LegacyCompetitorsRun
  \/ LegacyCompetitorsRunKilled
  \/ \E d \in RunSubjects :
       RunWriteBack(d) \/ RunDiscovery(d) \/ RunEvaluate(d) \/ RunDealUpdate(d)
  \/ AdapterReports
  \/ RegisterPersonWebhook
  \/ RegisterPersonTrigger
  \/ AddPersonWait
  \/ UploadApiHandler
  \/ \E i \in 1..MaxFiles : UploadS3Settles(i)
  \/ \E i \in 1..MaxFiles : UploadOpenAiSettles(i)
  \/ UploadApiContinues
  \/ \E user \in Users \cup {NULL} :
       \/ ApiListDeals(user)
       \/ ApiCreateDeal(user)
       \/ \E id \in ApiDealIds : ApiGetDeal(user, id)
       \/ \E id \in ApiDealIds \cup {NULL} : ApiDeleteDeal(user, id)

\* Each task applied to inputs of its own: the adapter to a file list, the
\* write-back loop to files and results, evaluate-competitor to existing rows.
UnitSpec == UnitInit /\ [][UnitNext]_vars

\* -------------------------------------------------------------- properties
ValidationMessages ==
  {"dealId is required", "userId is required",
   "Either s3Files or freeText must be provided"}

NothingTriggered ==
  /\ upload.st = "idle"
  /\ analysis.st = "idle"
  /\ \A c \in ALL_COMPETITOR_TYPES : discovery[c].st = "idle"
  /\ DOMAIN evaluation = {}

NoContent == Len(payload.s3Files) = 0 /\ payload.freeText = ""

\* C1: on a payload with neither files nor free text the orchestrator can only
\* fail, before it reports any progress; no task is triggered and no database
\* write is issued.
C1_NoContentFailsFast ==
  NoContent =>
    /\ pc \in {"start", "failed"}
    /\ pc = "failed" => failure \in ValidationMessages
    /\ progress = <<>>
    /\ NothingTriggered
    /\ dbWrites = 0
    /\ competitors = {}
    /\ deal = PlaceholderDeal

\* The run has failed on a payload whose only defect is the missing content.
C1_Witness ==
  /\ NoContent
  /\ payload.dealId # ""
  /\ payload.userId # ""
  /\ pc = "failed"
  /\ failure = "Either s3Files or freeText must be provided"

AnalysisBatchStarted ==
  analysis.st # "idle" \/ \E c \in ALL_COMPETITOR_TYPES : discovery[c].st # "idle"

\* C2: a synthesis or discovery run exists only once the upload run (when
\* there are files) has ended and the write-back loop is through, and an
\* evaluation run exists only once the synthesis run and every discovery run
\* have ended, succeeded or failed.
C2_SequentialPhases ==
  /\ AnalysisBatchStarted =>
       /\ pc \notin {"start", "upload-wait", "writeback"}
       /\ Len(payload.s3Files) > 0 =>
            (upload.st = "ok" /\ upload.i > Len(upload.files) /\ wbI > Len(payload.s3Files))
  /\ DOMAIN evaluation # {} =>
       /\ analysis.st \in {"ok", "failed"}
       /\ \A c \in ALL_COMPETITOR_TYPES : discovery[c].st \in {"ok", "failed"}

\* An evaluation run is under way after a batch in which one discovery run
\* failed and another created rows.
C2_Witness ==
  /\ \E id \in DOMAIN evaluation : evaluation[id].st = "running"
  /\ \E c \in ALL_COMPETITOR_TYPES : discovery[c].st = "failed"
  /\ Len(payload.s3Files) > 0

\* C3: an evaluation run that has read the subject found the synthesis output
\* on it: the name it used for company A is the name the synthesis returned.
C3_PersistBeforeEvaluate ==
  \A id \in DOMAIN evaluation :
    evaluation[id].st = "ok" => evaluation[id].companyA = analysis.output.deal_name

ValidPayload ==
  /\ payload.dealId # ""
  /\ payload.userId # ""
  /\ ~NoContent

SentinelNames == {"Unknown", "AI Analysis Incomplete", "AI Analysis Failed"}

\* C4: a run on a valid payload reaches completed whatever the provider calls
\* do, never ending failed, and when the synthesis call did not yield a
\* parsed output the subject then holds the fallback record (a sentinel name,
\* the all-"Unknown" founding team).
C4_ReachesCompleted ==
  /\ ValidPayload ~> pc = "completed"
  /\ [](ValidPayload => pc # "failed")
  /\ [](pc = "completed" /\ analysis.ai # "parsed"
          => /\ deal.companyName \in SentinelNames
             /\ deal.foundingTeam = UnknownTeam)

RowsOf(c) == { r \in competitors : r.competitorSource = c }

DiscoveryThrew(c) == discovery[c].st = "ok" /\ discovery[c].ai = "throw"

DiscoverySucceeded(c) ==
  /\ discovery[c].st = "ok"
  /\ discovery[c].ai = "parsed"
  /\ discovery[c].created = discovery[c].profiles

\* C6: when the provider call of one discovery branch threw and another
\* branch succeeded, the subject has one row for each profile of the
\* succeeding branch and none of the throwing one, and the orchestrator does
\* not fail on account of the batch.
C6_DiscoveryIsolated ==
  \A a, b \in ALL_COMPETITOR_TYPES :
    DiscoveryThrew(a) /\ DiscoverySucceeded(b) =>
      /\ RowsOf(a) = {}
      /\ { r.id : r \in RowsOf(b) } = { CompetitorId(b, k) : k \in 1..discovery[b].profiles }
      /\ Cardinality(RowsOf(b)) = discovery[b].profiles
      /\ (pc = "failed" => analysis.st = "failed")

\* Completed after a batch in which the first branch threw and another
\* created rows.
C6_Witness ==
  /\ pc = "completed"
  /\ \E a, b \in ALL_COMPETITOR_TYPES :
       /\ DiscoveryThrew(a)
       /\ DiscoverySucceeded(b)
       /\ discovery[b].profiles > 0

EvaluationFields(r) ==
  <<r.score, r.competitorCategory, r.shortJustification, r.detailedJustification>>

\* C7: an evaluation whose provider call throws or returns no parsed output
\* leaves the competitor row, its four evaluation fields included, as it was.
C7_FailedEvaluationKeepsFields ==
  \A n \in 1..Len(replayLog) :
    replayLog[n].kind \in {"null", "throw"} =>
      /\ EvaluationFields(replayLog[n].after) = EvaluationFields(replayLog[n].before)
      /\ replayLog[n].after = replayLog[n].before
      /\ n = Len(replayLog) => replayLog[n].before \in competitors

\* A failed evaluation of a competitor that had been evaluated before.
C7_Witness ==
  \E n \in 1..Len(replayLog) :
    /\ replayLog[n].kind \in {"null", "throw"}
    /\ replayLog[n].before.score # NULL
    /\ ~IsNullText(replayLog[n].before.detailedJustification)

WriteBackEnded == pc = "writeback" /\ wbI > Len(payload.s3Files)

\* DealFile row r has the filename and URL of file k of the payload.
SameFile(r, k) ==
  /\ dealFiles[r].originalName = payload.s3Files[k].originalFilename
  /\ dealFiles[r].url = payload.s3Files[k].s3Url

\* The files of the payload whose upload the provider answered with id.
IngestedAs(id) == { k \in 1..Len(payload.s3Files) : ProviderFileId(k) = id }

\* Every identifier on a DealFile row is that of an upload of a file with the
\* row's filename and URL.
NoForeignIdentifier ==
  \A r \in 1..Len(dealFiles) :
    dealFiles[r].openaiFileId # NULL =>
      \E k \in IngestedAs(dealFiles[r].openaiFileId) : SameFile(r, k)

\* C8 as stated: after the write-back loop no DealFile row holds the
\* identifier of another file, in whatever order the results came.
C8_OrderInsensitive == WriteBackEnded => NoForeignIdentifier

\* Result i is the adapter's result for file i of the payload.
ResultsInInputOrder ==
  /\ Len(upload.results) = Len(payload.s3Files)
  /\ \A i \in 1..Len(upload.results) :
       /\ upload.results[i].originalFilename = payload.s3Files[i].originalFilename
       /\ upload.results[i].openaiFileId \in {NULL, ProviderFileId(i)}

\* C8, amended: the loop pairs file i with result i by position and writes
\* result i's identifier onto the rows with file i's filename and URL; when
\* the results are in input order no row holds another file's identifier and
\* every row of an ingested file holds one.
C8_PositionalWriteBack ==
  WriteBackEnded =>
    /\ \A r \in 1..Len(dealFiles) :
         dealFiles[r].openaiFileId # NULL =>
           \E i \in 1..Len(upload.results) :
             /\ upload.results[i].openaiFileId = dealFiles[r].openaiFileId
             /\ SameFile(r, i)
    /\ \A r \in 1..Len(dealFiles), i \in 1..Len(upload.results) :
         SameFile(r, i) /\ upload.results[i].openaiFileId # NULL =>
           dealFiles[r].openaiFileId # NULL
    /\ ResultsInInputOrder => NoForeignIdentifier

\* The loop is through two different files with the same filename, both
\* ingested, results in input order.
C8_Witness ==
  /\ WriteBackEnded
  /\ ResultsInInputOrder
  /\ Len(payload.s3Files) >= 2
  /\ payload.s3Files[1].originalFilename = payload.s3Files[2].originalFilename
  /\ payload.s3Files[1].s3Url # payload.s3Files[2].s3Url
  /\ \A r \in 1..Len(dealFiles) : dealFiles[r].openaiFileId # NULL

\* C9: once the run has completed, each category has exactly one row per
\* profile its discovery call returned, tagged with that category, and the
\* evaluation runs issued are exactly one per existing row.
C9_OneRowOneEvaluation ==
  pc = "completed" =>
    /\ \A c \in ALL_COMPETITOR_TYPES :
         { r.id : r \in RowsOf(c) } = { CompetitorId(c, k) : k \in 1..discovery[c].profiles }
    /\ { r.id : r \in competitors } = DOMAIN evaluation
    /\ Len(competitorIds) = Cardinality(competitors)

\* C10: given any list of files a run of the adapter never fails, a failed
\* file stops no other file, and the run returns one result per file in
\* input order, each the provider's identifier or the null marker.
C10_NeverFailsBatch ==
  /\ upload.st # "failed"
  /\ upload.st \in {"loop", "await"} => Len(upload.results) = upload.i - 1
  /\ upload.st \in {"loop", "await", "ok"} =>
       \A i \in 1..Len(upload.results) :
         /\ i <= Len(upload.files)
         /\ upload.results[i].originalFilename = upload.files[i].originalFilename
         /\ upload.results[i].openaiFileId \in {NULL, ProviderFileId(i)}
  /\ upload.st = "ok" => Len(upload.results) = Len(upload.files)

\* The analyze-deal run was handed no file identifier and no free text.
NoSynthesisInput ==
  /\ Settled(analysis)
  /\ Len(AnalyzeDealPayload.openaiFileIds) = 0
  /\ AnalyzeDealPayload.freeText = ""

\* C11 as stated: an analyze-deal run with nothing to analyse fails and
\* yields no record, so no completed run has written one to the deal.
C11_SynthesisFailsFast ==
  /\ NoSynthesisInput => (analysis.st = "failed" /\ analysis.output = NULL)
  /\ pc = "completed" => ~NoSynthesisInput

\* C11, amended: an analyze-deal run with nothing to analyse makes no
\* provider call and returns the default record (name "Unknown"), and the
\* orchestrator, once completed, has written that record to the deal.
C11_SynthesisReturnsDefault ==
  NoSynthesisInput =>
    /\ analysis.st = "ok"
    /\ analysis.ai = "none"
    /\ analysis.output.deal_name = "Unknown"
    /\ analysis.output.deal_description = "No documents or text provided for analysis"
    /\ analysis.output.deal_founding_team =
         << [name |-> "Unknown", role |-> "Unknown", description |-> "Unknown"] >>
    /\ pc # "failed"
    /\ pc = "completed" =>
         /\ deal.companyName = "Unknown"
         /\ deal.description = "No documents or text provided for analysis"

\* Completed on a payload without free text whose every file failed ingestion.
C11_Witness ==
  /\ pc = "completed"
  /\ NoSynthesisInput
  /\ Len(payload.s3Files) = MaxRunFiles
  /\ deal.companyName = "Unknown"

SynthesisCallFailed == analysis.st = "ok" /\ analysis.ai \in {"null", "throw"}

TeamAllUnknown(team) ==
  /\ Len(team) > 0
  /\ \A i \in 1..Len(team) :
       team[i].name = "Unknown" /\ team[i].role = "Unknown" /\ team[i].description = "Unknown"

\* C12 as stated: after a failed provider call every field of the returned
\* record is "Unknown".
C12_FallbackAllUnknown ==
  SynthesisCallFailed =>
    /\ analysis.output.deal_name = "Unknown"
    /\ analysis.output.deal_description = "Unknown"
    /\ TeamAllUnknown(analysis.output.deal_founding_team)

\* C12, amended: after a failed provider call the returned record has every
\* field set: each founding-team member is all "Unknown", the name is
\* "AI Analysis Failed" (call threw) or "AI Analysis Incomplete" (no parsed
\* output) and the description is the matching fixed message.
C12_FallbackRecord ==
  SynthesisCallFailed =>
    /\ TeamAllUnknown(analysis.output.deal_founding_team)
    /\ analysis.ai = "throw" =>
         /\ analysis.output.deal_name = "AI Analysis Failed"
         /\ analysis.output.deal_description = "Unable to analyze documents at this time"
    /\ analysis.ai = "null" =>
         /\ analysis.output.deal_name = "AI Analysis Incomplete"
         /\ analysis.output.deal_description = "Analysis completed but parsing failed"
    /\ pc = "completed" =>
         /\ deal.companyName = analysis.output.deal_name
         /\ deal.companyName # NULL /\ deal.description # NULL /\ deal.foundingTeam # NULL

\* Completed after a provider call that returned no parsed output.
C12_Witness ==
  /\ pc = "completed"
  /\ analysis.ai = "null"
  /\ deal.companyName = "AI Analysis Incomplete"

\* Whether a maximal run of word characters of t starts at index i and is a
\* marker of the kind.
MarkerWordAt(t, i, kind) ==
  /\ IsWordChar(t[i])
  /\ (i = 1 \/ ~IsWordChar(t[i - 1]))
  /\ IsMarkerWord(SubSeq(t, i, RunEnd(t, i, "word")), kind)

\* The text t holds a citation artifact: a private-use character, a bracketed
\* numeric reference, a turnNsearchN/turnNnewsN token or a cite/citation token.
HasCitationMarker(t) ==
  /\ ~IsNullText(t)
  /\ \E i \in 1..Len(t) :
       \/ t[i] \in PrivateUseChars
       \/ BracketRefEnd(t, i) > 0
       \/ MarkerWordAt(t, i, "turn")
       \/ MarkerWordAt(t, i, "cite")

\* C13: no description, relevance, short or long justification stored on a
\* Competitor row holds a citation artifact.
C13_StoredTextsClean ==
  \A r \in competitors :
    /\ ~HasCitationMarker(r.description)
    /\ ~HasCitationMarker(r.relevance)
    /\ ~HasCitationMarker(r.shortJustification)
    /\ ~HasCitationMarker(r.detailedJustification)

\* C14: a second application of sanitizeCitations returns what the first
\* returned, and the first returns "Foo bar baz" for the example input.
C14_SanitizeIdempotent ==
  /\ \A k \in 2..Len(sanitizer.results) : sanitizer.results[k] = sanitizer.results[1]
  /\ (sanitizer.input = ExampleText /\ Len(sanitizer.results) >= 1) =>
       sanitizer.results[1] = <<"F", "o", "o", " ", "b", "a", "r", " ", "b", "a", "z">>

\* ---- C15 ----------------------------------------------------------------
\* The discovery branches whose update of the subject's Deal row was carried
\* out.
DealRowWriters == {c \in ALL_COMPETITOR_TYPES : discovery[c].wroteDeal}

\* The Competitor rows a step creates, and the rows it updates.
CreatedRows == { n \in competitors' : \A q \in competitors : q.id # n.id }
UpdatedRows == { u \in competitors' : u \notin competitors /\ u \notin CreatedRows }

\* C15: no two concurrent branches write the same row: a discovery branch
\* writes only the Competitor rows it creates (each row carries the category
\* of the one running branch that created it), an evaluation branch only the
\* one row it was given, and no branch the shared Deal row, also when the
\* subject has zero content identifiers.
C15_BranchesWriteOwnRows ==
  /\ [](/\ DealRowWriters = {}
        /\ \A r \in competitors : r.id[1] = r.competitorSource
        /\ \A r1, r2 \in competitors : r1.id = r2.id => r1 = r2)
  /\ [][ /\ \A r \in CreatedRows :
              /\ discovery[r.competitorSource].st = "running"
              /\ \A q \in CreatedRows : q.competitorSource = r.competitorSource
         /\ \A r \in UpdatedRows :
              /\ r.id \in DOMAIN evaluation
              /\ evaluation[r.id].st = "running"
              /\ evaluation'[r.id].st # "running"
              /\ UpdatedRows = {r}
         /\ (CreatedRows # {} => UpdatedRows = {})
         /\ ((\E c \in ALL_COMPETITOR_TYPES : discovery[c].st = "running")
               \/ (\E id \in DOMAIN evaluation : evaluation[id].st = "running"))
              => deal' = deal
       ]_vars

\* Two discovery branches have each created a row of their own category, and
\* the evaluations of two rows have ended.
C15_Witness ==
  /\ \E r1, r2 \in competitors : r1.competitorSource # r2.competitorSource
  /\ \E i1, i2 \in DOMAIN evaluation :
       i1 # i2 /\ evaluation[i1].st = "ok" /\ evaluation[i2].st = "ok"
  /\ DealRowWriters = {}

\* ---- C16 ----------------------------------------------------------------
\* The user owns the live (not soft-deleted) deal with this id.
OwnsLiveDealIn(rows, userId, dealId) ==
  \E d \in rows : d.id = dealId /\ d.assignedToId = userId /\ ~d.deleted
OwnsLiveDeal(userId, dealId) == OwnsLiveDealIn(tables.deals, userId, dealId)

\* C16: a read token is issued only to a signed-in user who owns the
\* non-deleted deal the token gives access to: for a run-scoped token the deal
\* the run belongs to, for a tag-scoped token the tagged deal, whatever runId
\* and dealId the request carries.
C16_TokenOnlyForOwner ==
  tokenApi.response.status = 200 =>
    /\ tokenApi.session \in Users
    /\ tokenApi.response.scope.kind = "runs" =>
         OwnsLiveDeal(tokenApi.session, RunDealId(tokenApi.response.scope.value))
    /\ tokenApi.response.scope.kind = "tags" =>
         OwnsLiveDeal(tokenApi.session, tokenApi.response.scope.value)

\* ---- C17 ----------------------------------------------------------------
\* Some discovery or evaluation run the orchestrator triggered has not ended.
DependentUnfinished ==
  \/ \E c \in ALL_COMPETITOR_TYPES : discovery[c].st = "running"
  \/ \E id \in DOMAIN evaluation : evaluation[id].st = "running"
  \/ legacyRun.st = "running"

\* C17: the orchestrator never reports completion (progress 100, returned
\* result) while a discovery or evaluation run it triggered is unfinished.
C17_CompletedMeansSettled ==
  (pc = "completed" \/ (Len(progress) > 0 /\ progress[Len(progress)] = 100)) =>
    ~DependentUnfinished

\* ---- C18 ----------------------------------------------------------------
\* C18: on any failure of the evaluation step (transport error, no parsed
\* output, competitor or subject not found) the step returns normally, raising
\* no error, and does not mutate the competitor record.
C18_FailureReturnsNormally ==
  \A n \in 1..Len(replayLog) :
    replayLog[n].kind # "parsed" => ~replayLog[n].raised /\ ~replayLog[n].mutated

\* C18 as the code has it: no failure mutates a competitor record; a provider
\* call that throws or yields no parsed output is logged and the run returns
\* normally, while a missing competitorId or a competitor (or its deal) that
\* is not found makes the run throw.
C18_FailureNeverMutates ==
  \A n \in 1..Len(replayLog) :
    /\ replayLog[n].kind # "parsed" => ~replayLog[n].mutated
    /\ replayLog[n].kind \in {"null", "throw"} => ~replayLog[n].raised
    /\ replayLog[n].kind = "notfound" => replayLog[n].raised
    /\ (replayLog[n].kind = "notfound" /\ n = Len(replayLog)) =>
         EvaluateLookupThrows(competitors, replayLog[n].id)

\* An evaluation run for the id of no competitor row has thrown.
C18_Witness ==
  \E n \in 1..Len(replayLog) :
    /\ replayLog[n].kind = "notfound"
    /\ replayLog[n].id # NoCompetitorId
    /\ replayLog[n].raised
    /\ competitors # {}

\* ---- C19 ----------------------------------------------------------------
\* C19: a discovery branch run for a subject with zero content identifiers
\* returns an empty competitor list (the run succeeds), having made no
\* provider call and created no Competitor row.
C19_NoFilesReturnsEmpty ==
  \A c \in ALL_COMPETITOR_TYPES :
    (discovery[c].st \in {"ok", "failed"} /\ Len(DealOpenaiFileIds) = 0) =>
      /\ discovery[c].st = "ok"
      /\ discovery[c].ai = "none"
      /\ discovery[c].created = 0
      /\ RowsOf(c) = {}

\* ---- C20 ----------------------------------------------------------------
\* A valid payload with free text and no documents.
FreeTextOnly == ValidPayload /\ Len(payload.s3Files) = 0

\* C20: for a subject with free text only the orchestrator never triggers the
\* ingestion task and writes no document row, and the synthesis step receives
\* an empty identifier list together with exactly the supplied free text.
C20_FreeTextOnlySkipsIngestion ==
  FreeTextOnly =>
    /\ upload = IdleUpload
    /\ dealFiles = <<>>
    /\ wbI = 1
    /\ ~(15 \in Range(progress))
    /\ analysis.st # "idle" =>
         AnalyzeDealPayload = [openaiFileIds |-> <<>>, freeText |-> payload.freeText]

\* A free-text-only run has completed with the synthesis made from the text.
C20_Witness ==
  /\ FreeTextOnly
  /\ pc = "completed"
  /\ analysis.st = "ok"
  /\ analysis.ai = "parsed"
  /\ AnalyzeDealPayload.freeText # ""

\* ---- C21 ----------------------------------------------------------------
\* C21: the progress values the orchestrator emits in one run never decrease,
\* stay within 0..100, and 100 is emitted only as the last value, with or
\* without documents.
C21_ProgressMonotone ==
  /\ \A i \in 1..Len(progress) : progress[i] \in 0..100
  /\ \A i, j \in 1..Len(progress) : i < j => progress[i] <= progress[j]
  /\ \A i \in 1..Len(progress) : progress[i] = 100 => i = Len(progress)
  /\ pc = "completed" => (Len(progress) > 0 /\ progress[Len(progress)] = 100)

\* A run with documents has completed, having emitted every progress value.
C21_Witness ==
  /\ pc = "completed"
  /\ Len(payload.s3Files) > 0
  /\ progress = <<5, 15, 40, 50, 80, 100>>

\* ---- C22 ----------------------------------------------------------------
\* The DealFile rows by what identifies them, and the ids of the Competitor rows.
DealFileKeys == [r \in 1..Len(dealFiles) |-> <<dealFiles[r].originalName, dealFiles[r].url>>]
CompetitorKeys == { r.id : r \in competitors }

\* C22: over a pipeline run the Deal and DealFile rows are only updated, never
\* created or removed; Competitor rows come into existence only in a step of a
\* discovery branch, each with that branch's category, and are never deleted;
\* a step of an evaluation run leaves the set of Competitor rows as it was.
C22_RowSetsFramed ==
  [][ /\ DealFileKeys' = DealFileKeys
      /\ DOMAIN deal' = DOMAIN deal
      /\ CompetitorKeys \subseteq CompetitorKeys'
      /\ Cardinality(competitors') = Cardinality(CompetitorKeys')
      /\ CompetitorKeys' # CompetitorKeys =>
           \E c \in ALL_COMPETITOR_TYPES :
             /\ discovery[c].st = "running"
             /\ discovery'[c].created = discovery[c].created + 1
             /\ \A c2 \in ALL_COMPETITOR_TYPES \ {c} : discovery'[c2] = discovery[c2]
             /\ \A id \in CompetitorKeys' \ CompetitorKeys : id[1] = c
      /\ evaluation' # evaluation => CompetitorKeys' = CompetitorKeys
    ]_vars

\* A run has completed with file ids written back, competitors created and
\* one of them evaluated.
C22_Witness ==
  /\ pc = "completed"
  /\ \E r \in 1..Len(dealFiles) : dealFiles[r].openaiFileId # NULL
  /\ \E r \in competitors : r.score # NULL
  /\ deal.companyName # "Processing..."

\* ---- C23 ----------------------------------------------------------------
\* The rows of the shared tables that subject d does not own.
RowsNotOf(d) ==
  [deals |-> { r \in tables.deals : r.id # d },
   dealFiles |-> { r \in tables.dealFiles : r.dealId # d },
   competitors |-> { r \in tables.competitors : r.dealId # d }]

\* The rows of subject d are those its run produces when it runs alone.
FinalRowsOf(d) ==
  /\ \A r \in tables.deals : r.id = d => r.companyName = SynthesisName(d)
  /\ { r \in tables.dealFiles : r.dealId = d } =
       { [dealId |-> d, originalName |-> "deck.pdf", url |-> "s3://deck.pdf",
          openaiFileId |-> IngestedId(d)] }
  /\ { r \in tables.competitors : r.dealId = d } =
       { [CreatedCompetitor(d) EXCEPT !.score = "7"] }

\* C23: under any interleaving of the runs of different subjects, a step of
\* the run for subject d leaves every Deal, DealFile and Competitor row of the
\* other subjects as it was, and once d's run has completed the rows of d are
\* those the run produces alone.
C23_SubjectsIndependent ==
  [][ \A d \in RunSubjects :
        /\ runs'[d] # runs[d] => RowsNotOf(d)' = RowsNotOf(d)
        /\ runs'[d] = "completed" => FinalRowsOf(d)'
    ]_vars

\* The runs of both subjects have completed.
C23_Witness ==
  /\ \A d \in RunSubjects : runs[d] = "completed" /\ FinalRowsOf(d)
  /\ Cardinality(tables.competitors) = 2

\* ---- C24 ----------------------------------------------------------------
\* The deal a token gives access to: the tagged deal, or the deal the run
\* belongs to.
TokenDeal(scope) == IF scope.kind = "runs" THEN RunDealId(scope.value) ELSE scope.value

\* C24: after any sequence of API calls, the list and fetch routes return,
\* and the public-token route authorises, a deal only for the user it is
\* assigned to and only while it is not soft-deleted; DELETE sets deleted on a
\* deal assigned to the caller only, no row is removed, and a soft-deleted
\* deal never becomes live again.
C24_DealAccessControl ==
  [][ /\ (api' # api /\ api'.method \in {"LIST", "GET"} /\ api'.status = 200) =>
           \A id \in api'.body : OwnsLiveDealIn(tables'.deals, api'.user, id)
      /\ (api' # api /\ api'.method = "LIST" /\ api'.status = 200) =>
           \A r \in tables'.deals :
             (r.assignedToId = api'.user /\ ~r.deleted) => r.id \in api'.body
      /\ (tokenApi' # tokenApi /\ tokenApi'.response.status = 200) =>
           OwnsLiveDealIn(tables'.deals, tokenApi'.session,
                          TokenDeal(tokenApi'.response.scope))
      /\ \A r \in tables.deals :
           \E r2 \in tables'.deals :
             /\ r2.id = r.id
             /\ r2.assignedToId = r.assignedToId
             /\ r.deleted => r2.deleted
             /\ (~r.deleted /\ r2.deleted) =>
                  /\ api'.method = "DELETE"
                  /\ api'.status = 200
                  /\ api'.user = r.assignedToId
                  /\ api'.id = r.id
    ]_vars

\* ---- C25 ----------------------------------------------------------------
\* C25: every Competitor row a discovery branch created during the run is
\* among the ids the orchestrator fans the evaluation out over, whatever the
\* outcome of the branch that created it.
C25_CreatedRowsEvaluated ==
  pc \in {"evaluate-wait", "completed"} =>
    \A r \in competitors : r.id \in Range(competitorIds) /\ r.id \in DOMAIN evaluation

\* ---- C26 ----------------------------------------------------------------
\* C26: from the moment a discovery branch has started, every identifier the
\* run's ingestion obtained is written to a DealFile row, so what discovery
\* and evaluation read from the rows is the identifier set synthesis was given.
C26_IdsWrittenBeforeDiscovery ==
  (\E c \in ALL_COMPETITOR_TYPES : discovery[c].st # "idle") =>
    /\ Range(DealOpenaiFileIds) = Range(AnalyzeDealPayload.openaiFileIds)
    /\ pc # "writeback"

\* The analysis batch runs after an ingestion that obtained an identifier for
\* every file of the payload, each found in the rows.
C26_Witness ==
  /\ \E c \in ALL_COMPETITOR_TYPES : discovery[c].st = "running"
  /\ Len(AnalyzeDealPayload.openaiFileIds) = MaxRunFiles
  /\ Len(DealOpenaiFileIds) = MaxRunFiles

\* ---- C27 ----------------------------------------------------------------
\* The rows of the shared tables that subject d owns, the Deal row included.
RowsOwnedBy(d) ==
  [deals |-> { r \in tables.deals : r.id = d },
   dealFiles |-> { r \in tables.dealFiles : r.dealId = d },
   competitors |-> { r \in tables.competitors : r.dealId = d }]

\* C27: once a deal is soft-deleted, no step of a pipeline run still in flight
\* for it modifies the deal or creates or updates a row the deal owns.
C27_DeletedDealUntouched ==
  [][ \A d \in RunSubjects :
        ((\E r \in tables.deals : r.id = d /\ r.deleted) /\ runs'[d] # runs[d]) =>
          RowsOwnedBy(d)' = RowsOwnedBy(d)
    ]_vars

\* ---- C28 ----------------------------------------------------------------
\* The request carries a file that is not a PDF.
HasNonPdf == \E i \in 1..Len(uploadApi.files) : ~IsPdf(uploadApi.files[i])

\* C28: a request with any non-PDF file is rejected with an error, creates no
\* Deal or DealFile row, and has none of its files uploaded to blob storage
\* or to the provider's file store, for every order of the files.
C28_NonPdfRejectsAll ==
  (HasNonPdf /\ uploadApi.status # 0) =>
    /\ uploadApi.status >= 400
    /\ uploadApi.dealRows = 0
    /\ uploadApi.fileRows = 0
    /\ uploadApi.s3 = {}
    /\ uploadApi.openai = {}

\* C29: the add-person orchestrator never fails its run: the fetch is
\* triggered only after the one-minute wait has completed, success=true with
\* both steps completed is returned only when the fetch succeeded, and any
\* error is returned as success=false with fetch_person_details failed.
C29_AddPersonNeverFails ==
  person.on =>
    /\ ~person.thrown
    /\ (person.triggered => person.waited)
    /\ (person.pc = "returned" /\ person.success =>
          /\ person.waitStep = "completed" /\ person.fetchStep = "completed"
          /\ FetchPersonDetailsOk(person.fetch))
    /\ (person.pc = "returned" /\ ~FetchPersonDetailsOk(person.fetch) =>
          ~person.success /\ person.fetchStep = "failed")

\* The run has waited, the fetch call has raised, and the catch block has
\* returned its record.
C29_Witness ==
  /\ person.pc = "returned"
  /\ person.waited
  /\ person.fetch = "noMethod"
  /\ ~person.success
  /\ person.waitStep = "completed"
  /\ person.fetchStep = "failed"
  /\ ~person.thrown

\* v is the share k / n in percent, rounded to a nearest integer
IsRoundedShare(v, k, n) ==
  /\ 2 * n * v - n <= 200 * k
  /\ 200 * k <= 2 * n * v + n

\* C30: the ingestion task's reported progress never decreases and stays
\* within 0..100 for every number of files n >= 1: the values are 5, then
\* round((i+1)/n*100) for i = 0..n-1, then 100.  Stated of the whole sequence
\* of a run with its uploads, and of each report and the one before it in a
\* run over a long list.
C30_IngestionProgress ==
  /\ LET p == upload.progress
         n == Len(upload.files)
     IN  Len(p) > 0 =>
           /\ n >= 1
           /\ p[1] = 5
           /\ \A j \in DOMAIN p : p[j] \in 0..100
           /\ \A j \in 1..(Len(p) - 1) : p[j] <= p[j + 1]
           /\ Len(p) <= n + 2
           /\ \A j \in 2..Len(p) :
                IF j <= n + 1 THEN IsRoundedShare(p[j], j - 1, n) ELSE p[j] = 100
           /\ (upload.st = "ok" => Len(p) = n + 2)
  /\ meter.on /\ meter.reports > 0 =>
       /\ meter.last \in 0..100
       /\ meter.reports = 1 => meter.last = 5
       /\ meter.reports > 1 => meter.prev <= meter.last
       /\ meter.reports \in 2..(meter.totalFiles + 1) =>
            IsRoundedShare(meter.last, meter.reports - 1, meter.totalFiles)
       /\ meter.reports = meter.totalFiles + 2 => meter.last = 100
====
